---------------------------- MODULE Spec2Model ----------------------------
(***************************************************************************)
(* Model of the GTU CPU interpreter (CPU::step and its helpers), the       *)
(* Memory it runs on and the image it is constructed from.                 *)
(*                                                                         *)
(* The program state is the memory array, the instruction table, the       *)
(* three CPU flags and the sink of the print callback.  One action models  *)
(* one public operation of the CPU: step() on a running CPU, step() on a   *)
(* halted CPU, and reset().                                                *)
(***************************************************************************)
EXTENDS Integers, Sequences, FiniteSets, TLC

(***************************************************************************)
(* Bounds of the model.                                                    *)
(***************************************************************************)
\* number of memory cells (the -m / --memory-size option)
MemSize == 1005
\* number of step() calls explored after construction or after a reset
MaxSteps == 3
\* number of reset() calls explored
MaxResets == 1
\* largest initial value of the counter of the countdown image
MaxCount == 3

(***************************************************************************)
(* common.h                                                                *)
(***************************************************************************)
PC_ADDR == 0
SP_ADDR == 1
CPU_OS_COMM_ADDR == 2
INSTR_COUNT_ADDR == 3
SAVED_TRAP_PC_ADDR == 4
SYSCALL_ARG1_PASS_ADDR == 5
REGISTERS_END_ADDR == 20
OS_SYSCALL_DISPATCHER_PC == 50
OS_MEMORY_FAULT_HANDLER_PC == 60
OS_ARITHMETIC_FAULT_HANDLER_PC == 70
OS_UNKNOWN_INSTRUCTION_HANDLER_PC == OS_MEMORY_FAULT_HANDLER_PC
OS_DATA_START_ADDR == REGISTERS_END_ADDR + 1
OS_DATA_END_ADDR == 999
USER_MEMORY_START_ADDR == 1000

\* enum class CpuEvent
EV_NONE == 0
EV_SYSCALL_PRN == 1
EV_SYSCALL_HLT_THREAD == 2
EV_SYSCALL_YIELD == 3
EV_MEMORY_FAULT_USER == 4
EV_UNKNOWN_INSTRUCTION_FAULT == 5
EV_ARITHMETIC_FAULT == 6

(***************************************************************************)
(* instruction.h                                                           *)
(***************************************************************************)
OpCode ==
    {"SET", "CPY", "CPYI", "CPYI2", "ADD", "ADDI", "SUBI", "JIF", "PUSH",
     "POP", "CALL", "RET", "HLT", "USER", "STOREI", "LOADI", "SYSCALL_PRN",
     "SYSCALL_HLT_THREAD", "SYSCALL_YIELD", "UNKNOWN"}

\* struct Instruction as the parser builds it: original_line is the source text
Instruction(op, a1, a2, n) ==
    [opcode |-> op, arg1 |-> a1, arg2 |-> a2, num_operands |-> n,
     original_line |-> "text"]

\* the default-constructed Instruction that fills a skipped index
Hole ==
    [opcode |-> "UNKNOWN", arg1 |-> 0, arg2 |-> 0, num_operands |-> 0,
     original_line |-> ""]

(***************************************************************************)
(* Exceptions.  what is the message text; the handlers of step() classify  *)
(* a runtime_error by searching its text.                                  *)
(***************************************************************************)
NoException == [kind |-> "none", what |-> "", faulting_address |-> 0]

UserMemoryFaultException(msg, addr) ==
    [kind |-> "UserMemoryFaultException", what |-> msg, faulting_address |-> addr]

runtime_error(msg) ==
    [kind |-> "runtime_error", what |-> msg, faulting_address |-> 0]

\* std::string(e.what()).find("Stack overflow") != npos ||
\* std::string(e.what()).find("Stack underflow") != npos
is_stack_issue(what) ==
    what \in {"Stack overflow during PUSH (SP would be negative).",
              "Stack overflow during CALL (SP would be negative)."}

\* a classification that never recognises the PC bounds message
is_pc_bounds_issue_never_matches(what) == FALSE

\* std::string(e.what()).find("out of instruction bounds") != npos
is_pc_bounds_issue(what) ==
    what = "Program Counter is out of instruction bounds."

VARIABLES
    memory_,                          \* Memory::data_, cells 0..MemSize-1
    program_instructions_,            \* the instruction table, slot p at index p+1
    halted_flag_,
    user_mode_flag_,
    pc_modified_by_data_operation_,
    prn_output,                       \* values handed to the print callback
    steps,                            \* step() calls executed since the last reset
    resets,                           \* reset() calls so far
    icount_at_reset,                  \* cell 3 as it was at the last reset
    icount_written,                   \* an instruction has written cell 3 since
    last,                             \* what the last operation did
    prev,                             \* what the operation before it did
    exit_code,                        \* what main() returned, NotReturned before
    image_file,                       \* the lines of the image file given to main()
    loaded                            \* main() is past its loading of the image

vars ==
    <<memory_, program_instructions_, halted_flag_, user_mode_flag_,
      pc_modified_by_data_operation_, prn_output, steps, resets,
      icount_at_reset, icount_written, last, prev, exit_code, image_file,
      loaded>>

\* the simulator's own state, outside the CPU and its memory
host_vars == <<exit_code, image_file, loaded>>

\* main() has not returned
NotReturned == -1

Addresses == 0 .. (MemSize - 1)

(***************************************************************************)
(* Memory                                                                  *)
(***************************************************************************)
\* checkAddress refusing the last cell as well
checkAddress_refuses_last_cell(address) ==
    ~(address < 0 \/ address >= MemSize - 1)

\* Memory::checkAddress: TRUE when the address is accepted
checkAddress(address) == ~(address < 0 \/ address >= MemSize)

(***************************************************************************)
(* The execution context of one step(): the memory and flags as the step   *)
(* has changed them so far, the step's locals, the exception in flight and *)
(* the log of the checked accesses made.                                   *)
(***************************************************************************)
Context(pc) ==
    [mem |-> memory_,
     user |-> user_mode_flag_,
     halted |-> halted_flag_,
     pc_data |-> FALSE,               \* pc_modified_by_data_operation_ = false
     current_pc |-> pc,
     next_pc |-> pc + 1,              \* long next_pc = current_pc + 1
     pc_instr |-> FALSE,              \* pc_modified_by_instruction = false
     out |-> prn_output,
     exc |-> NoException,
     acc |-> << >>]

Thrown(c) == c.exc.kind # "none"

Throw(c, e) == [c EXCEPT !.exc = e]

\* Memory::write on a checked address, as used by the CPU's own register writes
MemWrite(c, address, value) == [c EXCEPT !.mem[address] = value]

getSP(c) == c.mem[SP_ADDR]

setSP(c, new_sp) == MemWrite(c, SP_ADDR, new_sp)

setPC(c, new_pc) == MemWrite(c, PC_ADDR, new_pc)

setCpuEvent(c, event) == MemWrite(c, CPU_OS_COMM_ADDR, event)

\* the counter skipping the step that halts the CPU
incrementInstructionCounter_skips_halt(c) ==
    IF c.halted THEN c
    ELSE MemWrite(c, INSTR_COUNT_ADDR, c.mem[INSTR_COUNT_ADDR] + 1)

incrementInstructionCounter(c) ==
    MemWrite(c, INSTR_COUNT_ADDR, c.mem[INSTR_COUNT_ADDR] + 1)

\* one entry of the access log: the call, the mode it was made in, whether it
\* was performed and the value read or written
LogAccess(c, k, address, value, done) ==
    [c EXCEPT !.acc = Append(@, [kind |-> k, addr |-> address, val |-> value,
                                 user |-> c.user, ok |-> done])]

\* checkedRead refusing the cells below user memory whatever the mode
checkedRead_protects_in_any_mode(c, address) ==
    IF address < USER_MEMORY_START_ADDR /\ address >= 0
    THEN [c |-> Throw(LogAccess(c, "read", address, 0, FALSE),
                      UserMemoryFaultException("User mode read access violation", address)),
          v |-> 0]
    ELSE IF ~checkAddress(address)
    THEN [c |-> Throw(LogAccess(c, "read", address, 0, FALSE),
                      runtime_error("CPU memory read out of bounds")),
          v |-> 0]
    ELSE [c |-> LogAccess(c, "read", address, c.mem[address], TRUE),
          v |-> c.mem[address]]

\* CPU::checkedRead: the context after the call and the value returned
checkedRead(c, address) ==
    IF c.user /\ address < USER_MEMORY_START_ADDR /\ address >= 0
    THEN [c |-> Throw(LogAccess(c, "read", address, 0, FALSE),
                      UserMemoryFaultException("User mode read access violation", address)),
          v |-> 0]
    ELSE IF ~checkAddress(address)
    THEN [c |-> Throw(LogAccess(c, "read", address, 0, FALSE),
                      runtime_error("CPU memory read out of bounds")),
          v |-> 0]
    ELSE [c |-> LogAccess(c, "read", address, c.mem[address], TRUE),
          v |-> c.mem[address]]

\* checkedWrite with the protected range ending one cell early
checkedWrite_range_ends_early(c, address, value) ==
    IF c.user /\ address < OS_DATA_END_ADDR /\ address >= 0
    THEN Throw(LogAccess(c, "write", address, value, FALSE),
               UserMemoryFaultException("User mode write access violation", address))
    ELSE IF ~checkAddress(address)
    THEN Throw(LogAccess(c, "write", address, value, FALSE),
               runtime_error("CPU memory write out of bounds"))
    ELSE [LogAccess(c, "write", address, value, TRUE) EXCEPT
                   !.mem[address] = value,
                   !.pc_data = IF address = PC_ADDR THEN TRUE ELSE @]

\* CPU::checkedWrite
checkedWrite(c, address, value) ==
    IF c.user /\ address < USER_MEMORY_START_ADDR /\ address >= 0
    THEN Throw(LogAccess(c, "write", address, value, FALSE),
               UserMemoryFaultException("User mode write access violation", address))
    ELSE IF ~checkAddress(address)
    THEN Throw(LogAccess(c, "write", address, value, FALSE),
               runtime_error("CPU memory write out of bounds"))
    ELSE [LogAccess(c, "write", address, value, TRUE) EXCEPT
                   !.mem[address] = value,
                   !.pc_data = IF address = PC_ADDR THEN TRUE ELSE @]


(***************************************************************************)
(* CPU::step, the cases of the opcode switch.  Each takes the context at   *)
(* the case label and yields the context at its break or at its throw.     *)
(***************************************************************************)
InvalidOperands(i, n) == i.num_operands # n

ExecSET(c, i) ==
    IF InvalidOperands(i, 2) THEN Throw(c, runtime_error("SET: Invalid number of operands."))
    ELSE checkedWrite(c, i.arg2, i.arg1)

ExecCPY(c, i) ==
    IF InvalidOperands(i, 2) THEN Throw(c, runtime_error("CPY: Invalid number of operands."))
    ELSE LET val_a1 == checkedRead(c, i.arg1) IN
         IF Thrown(val_a1.c) THEN val_a1.c
         ELSE checkedWrite(val_a1.c, i.arg2, val_a1.v)

\* CPYI storing the pointer itself instead of the cell it points to
ExecCPYI_without_indirection(c, i) ==
    IF InvalidOperands(i, 2) THEN Throw(c, runtime_error("CPYI: Invalid number of operands."))
    ELSE LET addr_from_a1 == checkedRead(c, i.arg1) IN
         IF Thrown(addr_from_a1.c) THEN addr_from_a1.c
         ELSE checkedWrite(addr_from_a1.c, i.arg2, addr_from_a1.v)

ExecCPYI(c, i) ==
    IF InvalidOperands(i, 2) THEN Throw(c, runtime_error("CPYI: Invalid number of operands."))
    ELSE LET addr_from_a1 == checkedRead(c, i.arg1) IN
         IF Thrown(addr_from_a1.c) THEN addr_from_a1.c
         ELSE LET val_at_indirect_addr == checkedRead(addr_from_a1.c, addr_from_a1.v) IN
              IF Thrown(val_at_indirect_addr.c) THEN val_at_indirect_addr.c
              ELSE checkedWrite(val_at_indirect_addr.c, i.arg2, val_at_indirect_addr.v)

ExecCPYI2(c, i) ==
    IF InvalidOperands(i, 2) THEN Throw(c, runtime_error("CPYI2: Invalid number of operands."))
    ELSE LET address_X == checkedRead(c, i.arg1) IN
         IF Thrown(address_X.c) THEN address_X.c
         ELSE LET address_Y == checkedRead(address_X.c, i.arg2) IN
              IF Thrown(address_Y.c) THEN address_Y.c
              ELSE LET val == checkedRead(address_Y.c, address_X.v) IN
                   IF Thrown(val.c) THEN val.c
                   ELSE checkedWrite(val.c, address_Y.v, val.v)

\* ADD subtracting its immediate operand
ExecADD_subtracts_immediate(c, i) ==
    IF InvalidOperands(i, 2) THEN Throw(c, runtime_error("ADD: Invalid number of operands."))
    ELSE LET val_a == checkedRead(c, i.arg1) IN
         IF Thrown(val_a.c) THEN val_a.c
         ELSE checkedWrite(val_a.c, i.arg1, val_a.v - i.arg2)

ExecADD(c, i) ==
    IF InvalidOperands(i, 2) THEN Throw(c, runtime_error("ADD: Invalid number of operands."))
    ELSE LET val_a == checkedRead(c, i.arg1) IN
         IF Thrown(val_a.c) THEN val_a.c
         ELSE checkedWrite(val_a.c, i.arg1, val_a.v + i.arg2)

ExecADDI(c, i) ==
    IF InvalidOperands(i, 2) THEN Throw(c, runtime_error("ADDI: Invalid number of operands."))
    ELSE LET val_a1 == checkedRead(c, i.arg1) IN
         IF Thrown(val_a1.c) THEN val_a1.c
         ELSE LET val_a2 == checkedRead(val_a1.c, i.arg2) IN
              IF Thrown(val_a2.c) THEN val_a2.c
              ELSE checkedWrite(val_a2.c, i.arg1, val_a1.v + val_a2.v)

\* SUBI storing the difference into its first operand, as ADDI stores the sum
ExecSUBI_stores_in_first_operand(c, i) ==
    IF InvalidOperands(i, 2) THEN Throw(c, runtime_error("SUBI: Invalid number of operands."))
    ELSE LET val_a1 == checkedRead(c, i.arg1) IN
         IF Thrown(val_a1.c) THEN val_a1.c
         ELSE LET val_a2 == checkedRead(val_a1.c, i.arg2) IN
              IF Thrown(val_a2.c) THEN val_a2.c
              ELSE checkedWrite(val_a2.c, i.arg1, val_a1.v - val_a2.v)

ExecSUBI(c, i) ==
    IF InvalidOperands(i, 2) THEN Throw(c, runtime_error("SUBI: Invalid number of operands."))
    ELSE LET val_a1 == checkedRead(c, i.arg1) IN
         IF Thrown(val_a1.c) THEN val_a1.c
         ELSE LET val_a2 == checkedRead(val_a1.c, i.arg2) IN
              IF Thrown(val_a2.c) THEN val_a2.c
              ELSE checkedWrite(val_a2.c, i.arg2, val_a1.v - val_a2.v)

\* STOREI moving its pointer on to the next cell after the store
ExecSTOREI_advances_pointer(c, i) ==
    IF InvalidOperands(i, 2) THEN Throw(c, runtime_error("STOREI: Invalid number of operands."))
    ELSE LET src_value == checkedRead(c, i.arg1) IN
         IF Thrown(src_value.c) THEN src_value.c
         ELSE LET ptr_addr_value == checkedRead(src_value.c, i.arg2) IN
              IF Thrown(ptr_addr_value.c) THEN ptr_addr_value.c
              ELSE LET w == checkedWrite(ptr_addr_value.c, ptr_addr_value.v, src_value.v) IN
                   IF Thrown(w) THEN w
                   ELSE MemWrite(w, i.arg2, ptr_addr_value.v + 1)

ExecSTOREI(c, i) ==
    IF InvalidOperands(i, 2) THEN Throw(c, runtime_error("STOREI: Invalid number of operands."))
    ELSE LET src_value == checkedRead(c, i.arg1) IN
         IF Thrown(src_value.c) THEN src_value.c
         ELSE LET ptr_addr_value == checkedRead(src_value.c, i.arg2) IN
              IF Thrown(ptr_addr_value.c) THEN ptr_addr_value.c
              ELSE checkedWrite(ptr_addr_value.c, ptr_addr_value.v, src_value.v)

ExecLOADI(c, i) ==
    IF InvalidOperands(i, 2) THEN Throw(c, runtime_error("LOADI: Invalid number of operands."))
    ELSE LET ptr_addr_value == checkedRead(c, i.arg1) IN
         IF Thrown(ptr_addr_value.c) THEN ptr_addr_value.c
         ELSE LET indirect_value == checkedRead(ptr_addr_value.c, ptr_addr_value.v) IN
              IF Thrown(indirect_value.c) THEN indirect_value.c
              ELSE checkedWrite(indirect_value.c, i.arg2, indirect_value.v)

\* JIF jumping on negative values only
ExecJIF_strictly_negative(c, i) ==
    IF InvalidOperands(i, 2) THEN Throw(c, runtime_error("JIF: Invalid number of operands."))
    ELSE LET val_a == checkedRead(c, i.arg1) IN
         IF Thrown(val_a.c) THEN val_a.c
         ELSE IF val_a.v < 0
              THEN [val_a.c EXCEPT !.next_pc = i.arg2, !.pc_instr = TRUE]
              ELSE val_a.c

ExecJIF(c, i) ==
    IF InvalidOperands(i, 2) THEN Throw(c, runtime_error("JIF: Invalid number of operands."))
    ELSE LET val_a == checkedRead(c, i.arg1) IN
         IF Thrown(val_a.c) THEN val_a.c
         ELSE IF val_a.v <= 0
              THEN [val_a.c EXCEPT !.next_pc = i.arg2, !.pc_instr = TRUE]
              ELSE val_a.c

ExecPUSH(c, i) ==
    IF InvalidOperands(i, 1) THEN Throw(c, runtime_error("PUSH: Invalid number of operands."))
    ELSE LET sp == getSP(c) - 1 IN
         IF sp < 0
         THEN Throw(c, runtime_error("Stack overflow during PUSH (SP would be negative)."))
         ELSE LET val_a == checkedRead(setSP(c, sp), i.arg1) IN
              IF Thrown(val_a.c) THEN val_a.c
              ELSE checkedWrite(val_a.c, sp, val_a.v)

\* POP storing the top of the stack without moving SP
ExecPOP_keeps_sp(c, i) ==
    IF InvalidOperands(i, 1) THEN Throw(c, runtime_error("POP: Invalid number of operands."))
    ELSE LET sp == getSP(c)
             val_from_stack == checkedRead(c, sp) IN
         IF Thrown(val_from_stack.c) THEN val_from_stack.c
         ELSE checkedWrite(val_from_stack.c, i.arg1, val_from_stack.v)

ExecPOP(c, i) ==
    IF InvalidOperands(i, 1) THEN Throw(c, runtime_error("POP: Invalid number of operands."))
    ELSE LET sp == getSP(c)
             val_from_stack == checkedRead(c, sp) IN
         IF Thrown(val_from_stack.c) THEN val_from_stack.c
         ELSE checkedWrite(setSP(val_from_stack.c, sp + 1), i.arg1, val_from_stack.v)

\* CALL pushing its own address instead of the return address
ExecCALL_pushes_own_pc(c, i) ==
    IF InvalidOperands(i, 1) THEN Throw(c, runtime_error("CALL: Invalid number of operands."))
    ELSE LET sp == getSP(c) - 1 IN
         IF sp < 0
         THEN Throw(c, runtime_error("Stack overflow during CALL (SP would be negative)."))
         ELSE LET w == checkedWrite(setSP(c, sp), sp, c.current_pc) IN
              IF Thrown(w) THEN w
              ELSE [w EXCEPT !.next_pc = i.arg1, !.pc_instr = TRUE]

ExecCALL(c, i) ==
    IF InvalidOperands(i, 1) THEN Throw(c, runtime_error("CALL: Invalid number of operands."))
    ELSE LET sp == getSP(c) - 1 IN
         IF sp < 0
         THEN Throw(c, runtime_error("Stack overflow during CALL (SP would be negative)."))
         ELSE LET w == checkedWrite(setSP(c, sp), sp, c.current_pc + 1) IN
              IF Thrown(w) THEN w
              ELSE [w EXCEPT !.next_pc = i.arg1, !.pc_instr = TRUE]

\* RET handing the CPU back in user mode
ExecRET_returns_to_user_mode(c, i) ==
    IF InvalidOperands(i, 0) THEN Throw(c, runtime_error("RET: Invalid number of operands."))
    ELSE LET sp == getSP(c)
             return_addr == checkedRead(c, sp) IN
         IF Thrown(return_addr.c) THEN return_addr.c
         ELSE [setSP(return_addr.c, sp + 1) EXCEPT
                  !.next_pc = return_addr.v, !.pc_instr = TRUE, !.user = TRUE]

ExecRET(c, i) ==
    IF InvalidOperands(i, 0) THEN Throw(c, runtime_error("RET: Invalid number of operands."))
    ELSE LET sp == getSP(c)
             return_addr == checkedRead(c, sp) IN
         IF Thrown(return_addr.c) THEN return_addr.c
         ELSE [setSP(return_addr.c, sp + 1) EXCEPT
                  !.next_pc = return_addr.v, !.pc_instr = TRUE]

\* HLT storing the address of the following instruction as it stops
ExecHLT_steps_past(c, i) ==
    IF InvalidOperands(i, 0) THEN Throw(c, runtime_error("HLT: Invalid number of operands."))
    ELSE [setPC(c, c.current_pc + 1) EXCEPT
             !.halted = TRUE, !.next_pc = c.current_pc + 1, !.pc_instr = TRUE]

ExecHLT(c, i) ==
    IF InvalidOperands(i, 0) THEN Throw(c, runtime_error("HLT: Invalid number of operands."))
    ELSE [c EXCEPT !.halted = TRUE, !.next_pc = c.current_pc, !.pc_instr = TRUE]

\* USER rejecting a target PC that has no slot in the instruction table
ExecUSER_validates_target(c, i) ==
    IF InvalidOperands(i, 1) THEN Throw(c, runtime_error("USER: Invalid number of operands."))
    ELSE LET target_pc_value == checkedRead(c, i.arg1) IN
         IF Thrown(target_pc_value.c) THEN target_pc_value.c
         ELSE IF target_pc_value.v < 0
                 \/ target_pc_value.v >= Len(program_instructions_)
         THEN Throw(target_pc_value.c,
                    runtime_error("Program Counter is out of instruction bounds."))
         ELSE [target_pc_value.c EXCEPT
                  !.next_pc = target_pc_value.v, !.user = TRUE, !.pc_instr = TRUE]

ExecUSER(c, i) ==
    IF InvalidOperands(i, 1) THEN Throw(c, runtime_error("USER: Invalid number of operands."))
    ELSE LET target_pc_value == checkedRead(c, i.arg1) IN
         IF Thrown(target_pc_value.c) THEN target_pc_value.c
         ELSE [target_pc_value.c EXCEPT
                  !.next_pc = target_pc_value.v, !.user = TRUE, !.pc_instr = TRUE]

\* the trap of SYSCALL HLT and SYSCALL YIELD handing the event code to the
\* print callback as well
SyscallTrap_invokes_callback(c, event) ==
    [setCpuEvent(MemWrite(c, SAVED_TRAP_PC_ADDR, c.current_pc + 1), event) EXCEPT
        !.next_pc = OS_SYSCALL_DISPATCHER_PC, !.pc_instr = TRUE,
        !.out = Append(@, event)]

\* the tail shared by the three syscalls: save the return PC, post the event
SyscallTrap(c, event) ==
    [setCpuEvent(MemWrite(c, SAVED_TRAP_PC_ADDR, c.current_pc + 1), event) EXCEPT
        !.next_pc = OS_SYSCALL_DISPATCHER_PC, !.pc_instr = TRUE]

\* SYSCALL PRN saving the PC of the syscall itself instead of the return address
ExecSYSCALL_PRN_saves_current_pc(c, i) ==
    IF InvalidOperands(i, 1)
    THEN Throw(c, runtime_error("SYSCALL PRN: Invalid number of operands."))
    ELSE LET k == [c EXCEPT !.user = FALSE]
             val_to_print == checkedRead(k, i.arg1) IN
         IF Thrown(val_to_print.c) THEN val_to_print.c
         ELSE LET p == [val_to_print.c EXCEPT !.out = Append(@, val_to_print.v)]
                  s == MemWrite(p, SAVED_TRAP_PC_ADDR, c.current_pc)
                  e == setCpuEvent(s, EV_SYSCALL_PRN)
                  a == MemWrite(e, SYSCALL_ARG1_PASS_ADDR, i.arg1) IN
              [a EXCEPT !.next_pc = OS_SYSCALL_DISPATCHER_PC, !.pc_instr = TRUE]

ExecSYSCALL_PRN(c, i) ==
    IF InvalidOperands(i, 1)
    THEN Throw(c, runtime_error("SYSCALL PRN: Invalid number of operands."))
    ELSE LET k == [c EXCEPT !.user = FALSE]      \* user_mode_flag_ = false comes first
             val_to_print == checkedRead(k, i.arg1) IN
         IF Thrown(val_to_print.c) THEN val_to_print.c
         ELSE LET p == [val_to_print.c EXCEPT !.out = Append(@, val_to_print.v)]
                  s == MemWrite(p, SAVED_TRAP_PC_ADDR, c.current_pc + 1)
                  e == setCpuEvent(s, EV_SYSCALL_PRN)
                  a == MemWrite(e, SYSCALL_ARG1_PASS_ADDR, i.arg1) IN
              [a EXCEPT !.next_pc = OS_SYSCALL_DISPATCHER_PC, !.pc_instr = TRUE]

ExecSYSCALL_HLT_THREAD(c, i) ==
    IF InvalidOperands(i, 0)
    THEN Throw(c, runtime_error("SYSCALL HLT_THREAD: Invalid number of operands."))
    ELSE SyscallTrap([c EXCEPT !.user = FALSE], EV_SYSCALL_HLT_THREAD)

\* SYSCALL YIELD trapping from user mode only: in kernel mode it is passed over
ExecSYSCALL_YIELD_ignored_in_kernel_mode(c, i) ==
    IF InvalidOperands(i, 0)
    THEN Throw(c, runtime_error("SYSCALL YIELD: Invalid number of operands."))
    ELSE IF ~c.user THEN c
    ELSE SyscallTrap([c EXCEPT !.user = FALSE], EV_SYSCALL_YIELD)

ExecSYSCALL_YIELD(c, i) ==
    IF InvalidOperands(i, 0)
    THEN Throw(c, runtime_error("SYSCALL YIELD: Invalid number of operands."))
    ELSE SyscallTrap([c EXCEPT !.user = FALSE], EV_SYSCALL_YIELD)

\* case OpCode::UNKNOWN / default: an opcode with source text that is no instruction
ExecUNKNOWN(c, i) ==
    IF c.user
    THEN [setCpuEvent(MemWrite([c EXCEPT !.user = FALSE], SAVED_TRAP_PC_ADDR, c.current_pc),
                      EV_UNKNOWN_INSTRUCTION_FAULT) EXCEPT
             !.next_pc = OS_UNKNOWN_INSTRUCTION_HANDLER_PC, !.pc_instr = TRUE]
    ELSE [c EXCEPT !.halted = TRUE, !.next_pc = c.current_pc, !.pc_instr = TRUE]

Execute(c, i) ==
    CASE i.opcode = "SET" -> ExecSET(c, i)
      [] i.opcode = "CPY" -> ExecCPY(c, i)
      [] i.opcode = "CPYI" -> ExecCPYI(c, i)
      [] i.opcode = "CPYI2" -> ExecCPYI2(c, i)
      [] i.opcode = "ADD" -> ExecADD(c, i)
      [] i.opcode = "ADDI" -> ExecADDI(c, i)
      [] i.opcode = "SUBI" -> ExecSUBI(c, i)
      [] i.opcode = "STOREI" -> ExecSTOREI(c, i)
      [] i.opcode = "LOADI" -> ExecLOADI(c, i)
      [] i.opcode = "JIF" -> ExecJIF(c, i)
      [] i.opcode = "PUSH" -> ExecPUSH(c, i)
      [] i.opcode = "POP" -> ExecPOP(c, i)
      [] i.opcode = "CALL" -> ExecCALL(c, i)
      [] i.opcode = "RET" -> ExecRET(c, i)
      [] i.opcode = "HLT" -> ExecHLT(c, i)
      [] i.opcode = "USER" -> ExecUSER(c, i)
      [] i.opcode = "SYSCALL_PRN" -> ExecSYSCALL_PRN(c, i)
      [] i.opcode = "SYSCALL_HLT_THREAD" -> ExecSYSCALL_HLT_THREAD(c, i)
      [] i.opcode = "SYSCALL_YIELD" -> ExecSYSCALL_YIELD(c, i)
      [] OTHER -> ExecUNKNOWN(c, i)


(***************************************************************************)
(* CPU::step: the try block, the two handlers, the counter and the commit. *)
(***************************************************************************)
\* a hole test that takes the slots with source text for holes
IsHole_inverted_text_test(instr) ==
    instr.opcode = "UNKNOWN" /\ instr.original_line # ""

IsHole(instr) == instr.opcode = "UNKNOWN" /\ instr.original_line = ""

\* the instruction table has a slot for this PC
PCInBounds(pc) == ~(pc < 0 \/ pc >= Len(program_instructions_))

TryBlock(c) ==
    IF ~PCInBounds(c.current_pc)
    THEN Throw(c, runtime_error("Program Counter is out of instruction bounds."))
    ELSE LET instr == program_instructions_[c.current_pc + 1] IN
         IF IsHole(instr)
         THEN [c EXCEPT !.halted = TRUE, !.next_pc = c.current_pc, !.pc_instr = TRUE]
         ELSE Execute(c, instr)

\* catch (const UserMemoryFaultException &umf)
CatchUserMemoryFault(c) ==
    LET k == [c EXCEPT !.user = FALSE]
        s == MemWrite(k, SAVED_TRAP_PC_ADDR, c.current_pc)
        e == setCpuEvent(s, EV_MEMORY_FAULT_USER)
        a == MemWrite(e, SYSCALL_ARG1_PASS_ADDR, c.exc.faulting_address) IN
    [a EXCEPT !.next_pc = OS_MEMORY_FAULT_HANDLER_PC, !.pc_instr = TRUE]

\* the runtime_error handler delivering a trap whatever the mode
CatchRuntimeError_traps_in_any_mode(c) ==
    LET k == [c EXCEPT !.user = FALSE]
        s == MemWrite(k, SAVED_TRAP_PC_ADDR, c.current_pc) IN
    IF is_stack_issue(c.exc.what)
    THEN [setCpuEvent(s, EV_MEMORY_FAULT_USER) EXCEPT
             !.next_pc = OS_MEMORY_FAULT_HANDLER_PC, !.pc_instr = TRUE]
    ELSE IF is_pc_bounds_issue(c.exc.what)
    THEN [setCpuEvent(s, EV_UNKNOWN_INSTRUCTION_FAULT) EXCEPT
             !.next_pc = OS_UNKNOWN_INSTRUCTION_HANDLER_PC, !.pc_instr = TRUE]
    ELSE [setCpuEvent(s, EV_ARITHMETIC_FAULT) EXCEPT
             !.next_pc = OS_ARITHMETIC_FAULT_HANDLER_PC, !.pc_instr = TRUE]

\* catch (const std::runtime_error &e)
CatchRuntimeError(c) ==
    IF c.user
    THEN LET k == [c EXCEPT !.user = FALSE]
             s == MemWrite(k, SAVED_TRAP_PC_ADDR, c.current_pc) IN
         IF is_stack_issue(c.exc.what)
         THEN [setCpuEvent(s, EV_MEMORY_FAULT_USER) EXCEPT
                  !.next_pc = OS_MEMORY_FAULT_HANDLER_PC, !.pc_instr = TRUE]
         ELSE IF is_pc_bounds_issue(c.exc.what)
         THEN [setCpuEvent(s, EV_UNKNOWN_INSTRUCTION_FAULT) EXCEPT
                  !.next_pc = OS_UNKNOWN_INSTRUCTION_HANDLER_PC, !.pc_instr = TRUE]
         ELSE [setCpuEvent(s, EV_ARITHMETIC_FAULT) EXCEPT
                  !.next_pc = OS_ARITHMETIC_FAULT_HANDLER_PC, !.pc_instr = TRUE]
    ELSE [c EXCEPT !.halted = TRUE, !.next_pc = c.current_pc, !.pc_instr = TRUE]

\* a CPU that clears EVENT when the try block ends without an exception
Catch_clears_event(c) ==
    IF c.exc.kind = "UserMemoryFaultException" THEN CatchUserMemoryFault(c)
    ELSE IF c.exc.kind = "runtime_error" THEN CatchRuntimeError(c)
    ELSE setCpuEvent(c, EV_NONE)

Catch(c) ==
    IF c.exc.kind = "UserMemoryFaultException" THEN CatchUserMemoryFault(c)
    ELSE IF c.exc.kind = "runtime_error" THEN CatchRuntimeError(c)
    ELSE c

\* a commit that stores next_pc whatever the instruction wrote to cell 0
CommitPC_overrides_data_write(c) ==
    IF ~c.halted THEN setPC(c, c.next_pc) ELSE c

\* the if (!halted_flag_) block that ends step()
CommitPC(c) ==
    IF ~c.halted
    THEN IF c.pc_instr THEN setPC(c, c.next_pc)
         ELSE IF c.pc_data THEN c
         ELSE setPC(c, c.next_pc)
    ELSE c

\* step() returning from the PC bounds check before the counter is reached
StepResult_returns_before_counting ==
    IF PCInBounds(memory_[PC_ADDR])
    THEN CommitPC(incrementInstructionCounter(Catch(TryBlock(Context(memory_[PC_ADDR])))))
    ELSE CommitPC(Catch(TryBlock(Context(memory_[PC_ADDR]))))

\* the context in which step() returns
StepResult ==
    CommitPC(incrementInstructionCounter(Catch(TryBlock(Context(memory_[PC_ADDR])))))

\* the instruction step() fetches, a hole when the PC has no slot
Fetched ==
    IF PCInBounds(memory_[PC_ADDR])
    THEN program_instructions_[memory_[PC_ADDR] + 1]
    ELSE Hole

\* the checked writes of a step that were performed on a cell
WroteCell(acc, a) ==
    \E n \in 1..Len(acc) : acc[n].kind = "write" /\ acc[n].ok /\ acc[n].addr = a

\* the countdown image: cell 10 is decremented until JIF leaves the loop
Countdown ==
    <<Instruction("ADD", 10, -1, 2), Instruction("JIF", 10, 3, 2),
      Instruction("SET", 0, 0, 2), Instruction("HLT", 0, 0, 0)>>

\* an unconditional JIF to itself: cell 10 holds 0
SelfJump == <<Instruction("JIF", 10, 0, 2)>>

\* cells of the supervisor's data section the dispatcher uses, the address
\* of the TCB it is handed and the thread that TCB describes
THREAD_STATE_RUNNING == 22
TEMP_VAR_4 == 38
TCB_TABLE_START == 300
ThreadEntry == 6
ThreadSP == 1002

\* the tail of OS_DISPATCH_THREAD, from the load of the saved PC to USER,
\* followed at ThreadEntry by the first instruction of the thread
OS_DISPATCH_THREAD ==
    <<Instruction("LOADI", TEMP_VAR_4, PC_ADDR, 2),
      Instruction("ADD", TEMP_VAR_4, 1, 2),
      Instruction("LOADI", TEMP_VAR_4, SP_ADDR, 2),
      Instruction("ADD", TEMP_VAR_4, 1, 2),
      Instruction("STOREI", THREAD_STATE_RUNNING, TEMP_VAR_4, 2),
      Instruction("USER", PC_ADDR, 0, 1),
      Instruction("SET", 5, 1003, 2)>>

\* step() calls explored for an image: the countdown from MaxCount needs
\* 3 * MaxCount of them to reach its HLT, the dispatcher one for each of its
\* instructions
StepLimit ==
    IF program_instructions_ \in {Countdown, SelfJump}
    THEN 3 * MaxCount + 1
    ELSE IF program_instructions_ = OS_DISPATCH_THREAD
    THEN Len(OS_DISPATCH_THREAD) + 1
    ELSE MaxSteps

\* step() on a CPU that is not halted
step ==
    /\ loaded
    /\ ~halted_flag_
    /\ exit_code = NotReturned
    /\ steps < StepLimit
    /\ LET r == StepResult
           x == Catch(TryBlock(Context(memory_[PC_ADDR]))) IN
       /\ memory_' = r.mem
       /\ halted_flag_' = r.halted
       /\ user_mode_flag_' = r.user
       /\ pc_modified_by_data_operation_' = r.pc_data
       /\ prn_output' = r.out
       /\ icount_written' = (icount_written \/ WroteCell(r.acc, INSTR_COUNT_ADDR))
       /\ last' = [op |-> "step",
                   pc |-> r.current_pc,
                   sp |-> memory_[SP_ADDR],
                   user |-> user_mode_flag_,
                   fetched |-> PCInBounds(memory_[PC_ADDR]),
                   instr |-> Fetched,
                   exc |-> r.exc,
                   acc |-> r.acc,
                   icount_before |-> x.mem[INSTR_COUNT_ADDR]]
    /\ prev' = last
    /\ steps' = steps + 1
    /\ UNCHANGED <<program_instructions_, resets, icount_at_reset>>
    /\ UNCHANGED host_vars

\* step() on a halted CPU counting the call in ICOUNT before it returns
step_halted_counts_the_call ==
    /\ halted_flag_
    /\ memory_' = [memory_ EXCEPT ![INSTR_COUNT_ADDR] = @ + 1]
    /\ last' = [last EXCEPT !.op = "step_halted"]
    /\ prev' = last
    /\ UNCHANGED <<program_instructions_, halted_flag_, user_mode_flag_,
                   pc_modified_by_data_operation_, prn_output, steps, resets,
                   icount_at_reset, icount_written>>
    /\ UNCHANGED host_vars

\* step() on a halted CPU: the early return
step_halted ==
    /\ halted_flag_
    /\ last' = [last EXCEPT !.op = "step_halted"]
    /\ prev' = last
    /\ UNCHANGED <<memory_, program_instructions_, halted_flag_, user_mode_flag_,
                   pc_modified_by_data_operation_, prn_output, steps, resets,
                   icount_at_reset, icount_written>>
    /\ UNCHANGED host_vars

\* CPU::reset
reset ==
    /\ resets < MaxResets
    /\ halted_flag_' = FALSE
    /\ user_mode_flag_' = FALSE
    /\ pc_modified_by_data_operation_' = FALSE
    /\ steps' = 0
    /\ resets' = resets + 1
    /\ icount_at_reset' = memory_[INSTR_COUNT_ADDR]
    /\ icount_written' = FALSE
    /\ last' = [last EXCEPT !.op = "reset"]
    /\ prev' = last
    /\ UNCHANGED <<memory_, program_instructions_, prn_output>>
    /\ UNCHANGED host_vars

\* main() leaving its simulation loop: while (!gtu_cpu.isHalted()) has ended,
\* no exception left step(), and main returns 0
main_return ==
    /\ loaded
    /\ halted_flag_
    /\ exit_code = NotReturned
    /\ exit_code' = 0
    /\ UNCHANGED <<memory_, program_instructions_, halted_flag_, user_mode_flag_,
                   pc_modified_by_data_operation_, prn_output, steps, resets,
                   icount_at_reset, icount_written, last, prev, image_file,
                   loaded>>


(***************************************************************************)
(* The images the CPU is constructed from: a data section (the initial     *)
(* memory) and an instruction section (the table).                         *)
(***************************************************************************)
\* operand values: out of range below, the register window, the edges of the
\* supervisor area, user cells, out of range above
Operands == {-1, 0, 1, 3, 20, 21, 999, 1000, 1001, 1002, 1004, MemSize}

\* initial stack pointers: a push overflows, lands on the PC cell, on ICOUNT,
\* in the supervisor area, in user memory; a pop reads outside memory
StackPointers == {0, 1, 4, 22, 1004, MemSize}

\* the stack of the default image starts at the top of memory
DefaultSP == MemSize - 1

\* the data section: cell 1000 holds the entry PC of the user code and, with
\* cells 20, 999, 1001, 1002 and 1004, pointers into every region
DataSection(sp) ==
    [a \in Addresses |->
        CASE a = SP_ADDR -> sp
          [] a = 20 -> 21
          [] a = 21 -> 7
          [] a = 999 -> 1003
          [] a = 1000 -> 1
          [] a = 1001 -> 21
          [] a = 1002 -> 1003
          [] a = 1003 -> 42
          [] a = 1004 -> -1
          [] OTHER -> 0]

TwoOperandOps ==
    {"SET", "CPY", "CPYI", "CPYI2", "ADD", "ADDI", "SUBI", "JIF", "STOREI", "LOADI"}

OneOperandOps == {"PUSH", "POP", "CALL", "USER", "SYSCALL_PRN"}

NoOperandOps == {"RET", "HLT", "SYSCALL_HLT_THREAD", "SYSCALL_YIELD"}

StackOps == {"PUSH", "POP", "CALL", "RET"}

\* what the parser accepts, plus a hole, an opcode the CPU does not know and
\* an instruction with a wrong operand count
Instructions ==
    {Instruction(op, a1, a2, 2) : op \in TwoOperandOps, a1 \in Operands, a2 \in Operands}
    \cup {Instruction(op, a1, 0, 1) : op \in OneOperandOps, a1 \in Operands}
    \cup {Instruction(op, 0, 0, 0) : op \in NoOperandOps}
    \cup {Hole, Instruction("UNKNOWN", 0, 0, 0), Instruction("SET", 5, 0, 1)}

\* the supervisor's hand-over: USER 1000 enters user mode at PC = mem[1000] = 1
EnterUser == Instruction("USER", 1000, 0, 1)

\* one instruction run in kernel mode; one instruction run in user mode
Programs ==
    {<<i>> : i \in Instructions} \cup {<<EnterUser, i>> : i \in Instructions}

UsesStack(prog) == \E n \in 1..Len(prog) : prog[n].opcode \in StackOps

\* one line of the instruction section: its index and the instruction decoded
Line(n, i) == [parsedLineNum |-> n, instr |-> i]

\* instructions.resize(n) on a vector shorter than n
resize(instructions, n) ==
    instructions \o [k \in 1..(n - Len(instructions)) |-> Hole]

\* the loop body of parseInstructionSection, line after line
RECURSIVE parseLines(_, _)
parseLines(lines, instructions) ==
    IF lines = << >> THEN instructions
    ELSE LET l == Head(lines)
             grown == IF l.parsedLineNum >= Len(instructions)
                      THEN resize(instructions, l.parsedLineNum + 1)
                      ELSE instructions IN
         parseLines(Tail(lines), [grown EXCEPT ![l.parsedLineNum + 1] = l.instr])

\* the instruction table built from the lines of an image
parseInstructionSection(lines) == parseLines(lines, << >>)

\* instructions placed after a skipped index
SparseTails == {Instruction("HLT", 0, 0, 0), Instruction("SET", 7, 1002, 2)}

\* instruction sections that skip an index: slot 0 or slot 1 is never given
Listings ==
    {<<Line(1, i)>> : i \in SparseTails}
    \cup {<<Line(0, EnterUser), Line(2, i)>> : i \in SparseTails}
    \cup {<<Line(2, i), Line(0, Instruction("SET", 7, 1002, 2))>> : i \in SparseTails}

SparsePrograms == {parseInstructionSection(l) : l \in Listings}

\* operands and stack pointers of the push/pop and call/return programs
PairOperands == {3, 21, 1000, 1002}

PairStackPointers == {1, 2, 4, 22, MemSize - 1, MemSize}

\* PUSH A; POP B run in kernel mode and run in user mode
PushPopPrograms ==
    {<<Instruction("PUSH", a, 0, 1), Instruction("POP", b, 0, 1)>> :
        a \in PairOperands, b \in PairOperands}
    \cup {<<EnterUser, Instruction("PUSH", a, 0, 1), Instruction("POP", b, 0, 1)>> :
        a \in PairOperands, b \in PairOperands}

\* CALL C with the matching RET at C, run in kernel mode and in user mode
CallRetPrograms ==
    {<<Instruction("CALL", 1, 0, 1), Instruction("RET", 0, 0, 0)>>,
     <<Instruction("CALL", 2, 0, 1), Instruction("HLT", 0, 0, 0),
       Instruction("RET", 0, 0, 0)>>,
     <<Instruction("SET", 7, 1002, 2), Instruction("CALL", 3, 0, 1),
       Instruction("HLT", 0, 0, 0), Instruction("RET", 0, 0, 0)>>,
     <<EnterUser, Instruction("CALL", 2, 0, 1), Instruction("RET", 0, 0, 0)>>}

\* SYSCALL PRN of the cells the trap itself writes: EVENT, SAVED_PC and ARG1,
\* run in kernel mode and in user mode
PrnPrograms ==
    {<<Instruction("SYSCALL_PRN", a, 0, 1)>> :
        a \in {CPU_OS_COMM_ADDR, SAVED_TRAP_PC_ADDR, SYSCALL_ARG1_PASS_ADDR}}
    \cup {<<EnterUser, Instruction("SYSCALL_PRN", a, 0, 1)>> :
        a \in {CPU_OS_COMM_ADDR, SAVED_TRAP_PC_ADDR, SYSCALL_ARG1_PASS_ADDR}}

\* the supervisor storing into EVENT, SAVED_PC or ARG1 and halting
EventPrograms ==
    {<<Instruction("SET", 7, a, 2), Instruction("HLT", 0, 0, 0)>> :
        a \in {CPU_OS_COMM_ADDR, SAVED_TRAP_PC_ADDR, SYSCALL_ARG1_PASS_ADDR}}

\* the data section the dispatcher runs on: TEMP_VAR_4 points at the TCB,
\* which holds the saved PC and the saved SP of the thread
DispatchData(sp) ==
    [a \in Addresses |->
        CASE a = SP_ADDR -> sp
          [] a = THREAD_STATE_RUNNING -> 2
          [] a = TEMP_VAR_4 -> TCB_TABLE_START
          [] a = TCB_TABLE_START -> ThreadEntry
          [] a = TCB_TABLE_START + 1 -> ThreadSP
          [] OTHER -> 0]

\* the data section of an image
ImageData(image) ==
    IF image.program = OS_DISPATCH_THREAD
    THEN DispatchData(image.sp)
    ELSE DataSection(image.sp)

Images ==
    {[program |-> prog, sp |-> DefaultSP] :
        prog \in Programs \cup SparsePrograms \cup PrnPrograms \cup EventPrograms
                 \cup {OS_DISPATCH_THREAD}}
    \cup {[program |-> prog, sp |-> sp] :
            prog \in {q \in Programs : UsesStack(q)}, sp \in StackPointers}
    \cup {[program |-> prog, sp |-> sp] :
            prog \in PushPopPrograms \cup CallRetPrograms, sp \in PairStackPointers}

\* the record of an operation before any step() was made
NotStepped ==
    [op |-> "construct", pc |-> 0, sp |-> 0, user |-> FALSE, fetched |-> FALSE,
     instr |-> Hole, exc |-> NoException, acc |-> << >>, icount_before |-> 0]

\* the state after the image is loaded and the CPU constructed
Init ==
    \E image \in Images :
        /\ memory_ = ImageData(image)
        /\ program_instructions_ = image.program
        /\ halted_flag_ = FALSE
        /\ user_mode_flag_ = FALSE
        /\ pc_modified_by_data_operation_ = FALSE
        /\ prn_output = << >>
        /\ steps = 0
        /\ resets = 0
        /\ icount_at_reset = 0
        /\ icount_written = FALSE
        /\ last = NotStepped
        /\ prev = NotStepped
        /\ exit_code = NotReturned
        /\ image_file = << >>
        /\ loaded = TRUE

Next == step \/ step_halted \/ reset

Spec == Init /\ [][Next]_vars

\* the data section of the countdown image: cell 10 is the counter and cell
\* 11 keeps its initial value
CountdownData(n) == [DataSection(DefaultSP) EXCEPT ![10] = n, ![11] = n]

\* the images main() is run on: the countdown from 1..MaxCount, the jump to
\* itself, and every one-instruction image without a second operand
RunImages ==
    {[program |-> Countdown, data |-> CountdownData(n)] : n \in 1..MaxCount}
    \cup {[program |-> SelfJump, data |-> DataSection(DefaultSP)]}
    \cup {[program |-> <<i>>, data |-> DataSection(DefaultSP)] :
             i \in {j \in Instructions : j.opcode \in OneOperandOps \cup NoOperandOps}}

\* main() up to the start of its simulation loop
RunInit ==
    \E image \in RunImages :
        /\ memory_ = image.data
        /\ program_instructions_ = image.program
        /\ halted_flag_ = FALSE
        /\ user_mode_flag_ = FALSE
        /\ pc_modified_by_data_operation_ = FALSE
        /\ prn_output = << >>
        /\ steps = 0
        /\ resets = 0
        /\ icount_at_reset = 0
        /\ icount_written = FALSE
        /\ last = NotStepped
        /\ prev = NotStepped
        /\ exit_code = NotReturned
        /\ image_file = << >>
        /\ loaded = TRUE

\* main(): the loop calls step() while the CPU is not halted, then returns
RunNext == step \/ main_return

RunSpec == RunInit /\ [][RunNext]_vars /\ WF_vars(step) /\ WF_vars(main_return)


(***************************************************************************)
(* Vocabulary of the properties.                                           *)
(***************************************************************************)
\* the transition is a step() of a CPU that was not halted
IsStep == steps' = steps + 1

\* the last operation was such a step
Stepped == last.op = "step"

\* an address of the supervisor-private region
Supervisor(a) == a >= 21 /\ a <= 999

\* an address a user-mode instruction may use: register window or user memory
LegalForUser(a) == (a >= 0 /\ a <= 20) \/ (a >= 1000 /\ a < MemSize)

\* the checked accesses the last step made, in order
Accesses == {last.acc[n] : n \in 1..Len(last.acc)}

\* the value the last step's instruction stored into cell a by a checked write
WrittenValue(acc, a) ==
    acc[CHOOSE n \in 1..Len(acc) :
            /\ acc[n].kind = "write" /\ acc[n].ok /\ acc[n].addr = a
            /\ \A m \in (n + 1)..Len(acc) :
                   ~(acc[m].kind = "write" /\ acc[m].ok /\ acc[m].addr = a)].val

\* the last step fetched an instruction with this opcode
Ran(op) == Stepped /\ last.fetched /\ ~IsHole(last.instr) /\ last.instr.opcode = op


(***************************************************************************)
(* Protection and the trap protocol.                                       *)
(***************************************************************************)

\* C1: write protection.  A step that begins in user mode leaves every cell
\* at an address in 21..999 with the value it had before the step, whatever
\* the instruction and its operands.
C1_WriteProtection ==
    [][(IsStep /\ user_mode_flag_) =>
          \A a \in 21..999 : memory_'[a] = memory_[a]]_vars

\* a user-mode step whose instruction tried to write a supervisor cell
C1_Witness ==
    /\ Stepped /\ last.user
    /\ \E x \in Accesses : x.kind = "write" /\ Supervisor(x.addr)

\* C2: SYSCALL PRN A in user mode with 21 <= A <= 999 does not hand mem[A]
\* to the print callback and ends as a memory-fault trap: EVENT = 4,
\* ARG1 = A, PC = the memory-fault handler.
C2_PrnArgumentIsProtected ==
    [][(/\ IsStep /\ user_mode_flag_ /\ PCInBounds(memory_[0])
        /\ Fetched.opcode = "SYSCALL_PRN" /\ Supervisor(Fetched.arg1)) =>
          /\ prn_output' = prn_output
          /\ memory_'[2] = 4
          /\ memory_'[5] = Fetched.arg1
          /\ memory_'[0] = 60]_vars

\* C3: an instruction at PC = p that accesses a supervisor address t in user
\* mode ends the step with user_mode = false, SAVED_PC = p, EVENT = 4,
\* ARG1 = t, PC = 60 and halted = false.
C3_ProtectedAccessTraps ==
    [][(IsStep /\ user_mode_flag_) =>
          \A n \in 1..Len(last'.acc) :
              (/\ Supervisor(last'.acc[n].addr)
               /\ \A m \in 1..(n - 1) : ~Supervisor(last'.acc[m].addr)) =>
                  /\ ~user_mode_flag_'
                  /\ memory_'[4] = memory_[0]
                  /\ memory_'[2] = 4
                  /\ memory_'[5] = last'.acc[n].addr
                  /\ memory_'[0] = 60
                  /\ ~halted_flag_']_vars

\* the three syscalls and their event codes
SyscallCode(op) ==
    CASE op = "SYSCALL_PRN" -> 1
      [] op = "SYSCALL_HLT_THREAD" -> 2
      [] op = "SYSCALL_YIELD" -> 3

\* C4: a SYSCALL PRN A (A legal), SYSCALL HLT or SYSCALL YIELD at PC = p in
\* user mode ends the step in kernel mode with SAVED_PC = p + 1, EVENT = 1,
\* 2 or 3, PC = 50 and, for PRN, ARG1 = A.
C4_SyscallTrap ==
    [][(/\ IsStep /\ user_mode_flag_ /\ PCInBounds(memory_[0])
        /\ Fetched.opcode \in {"SYSCALL_PRN", "SYSCALL_HLT_THREAD", "SYSCALL_YIELD"}
        /\ (Fetched.opcode = "SYSCALL_PRN" => LegalForUser(Fetched.arg1))) =>
          /\ ~user_mode_flag_'
          /\ memory_'[4] = memory_[0] + 1
          /\ memory_'[2] = SyscallCode(Fetched.opcode)
          /\ memory_'[0] = 50
          /\ (Fetched.opcode = "SYSCALL_PRN" => memory_'[5] = Fetched.arg1)]_vars

\* a SYSCALL PRN with a legal argument was executed in user mode and trapped
C4_Witness ==
    /\ Ran("SYSCALL_PRN") /\ last.user /\ LegalForUser(last.instr.arg1)
    /\ memory_[4] = last.pc + 1 /\ memory_[2] = 1 /\ memory_[0] = 50

\* C5: a user-mode access to an address outside 0..N-1 is delivered as a
\* memory-fault trap: EVENT = 4, ARG1 = the address, SAVED_PC = the faulting
\* PC, PC = the memory-fault handler, user_mode = false.
C5_OutOfRangeIsMemoryFault ==
    [][(IsStep /\ user_mode_flag_) =>
          \A n \in 1..Len(last'.acc) :
              (last'.acc[n].addr < 0 \/ last'.acc[n].addr >= MemSize) =>
                  /\ memory_'[2] = 4
                  /\ memory_'[5] = last'.acc[n].addr
                  /\ memory_'[4] = memory_[0]
                  /\ memory_'[0] = 60
                  /\ ~user_mode_flag_']_vars

\* C6: no step that begins in user mode and fetches anything but HLT or a
\* hole halts the CPU.
C6_UserFaultNeverHalts ==
    [][(/\ IsStep /\ user_mode_flag_ /\ PCInBounds(memory_[0])
        /\ Fetched.opcode # "HLT" /\ ~IsHole(Fetched)) =>
          ~halted_flag_']_vars

\* the last step raised a fault: an exception, or an opcode the CPU does not know
Faulted ==
    \/ last.exc.kind # "none"
    \/ (last.fetched /\ ~IsHole(last.instr) /\ last.instr.opcode = "UNKNOWN")

\* C7: a fault in a step that begins in kernel mode sets halted, leaves the
\* PC cell at the faulting instruction and writes none of EVENT, SAVED_PC
\* and ARG1.
C7_KernelFaultIsFatal ==
    [][(IsStep /\ ~user_mode_flag_ /\ Faulted') =>
          /\ halted_flag_'
          /\ memory_'[0] = memory_[0]
          /\ memory_'[2] = memory_[2]
          /\ memory_'[4] = memory_[4]
          /\ memory_'[5] = memory_[5]]_vars

\* a kernel-mode step whose access fell outside memory halted the CPU
C7_Witness ==
    /\ Stepped /\ ~last.user /\ halted_flag_
    /\ last.exc.kind = "runtime_error"
    /\ \E x \in Accesses : ~x.ok /\ (x.addr < 0 \/ x.addr >= MemSize)

\* C8: in user mode an access to an address in 0..20 raises no protection
\* fault, while an access to address 21 traps with EVENT = 4 and ARG1 = 21.
C8_RegisterWindowUnrestricted ==
    [][(IsStep /\ user_mode_flag_) =>
          \A n \in 1..Len(last'.acc) :
              /\ (last'.acc[n].addr >= 0 /\ last'.acc[n].addr <= 20) =>
                     last'.acc[n].ok
              /\ (last'.acc[n].addr = 21 /\ last'.acc[n].user) =>
                     (memory_'[2] = 4 /\ memory_'[5] = 21)]_vars

\* C9: every step of a CPU that is not halted adds one to ICOUNT after the
\* instruction's own effects: cell 3 ends at v + 1 when the instruction
\* stored v there, and at its old value plus one otherwise.
C9_CountedOnce ==
    [][IsStep =>
          memory_'[3] =
              (IF WroteCell(last'.acc, 3) THEN WrittenValue(last'.acc, 3)
               ELSE memory_[3]) + 1]_vars

\* a step whose instruction stored a value into cell 3 and was then counted
C9_Witness ==
    /\ Stepped /\ WroteCell(last.acc, 3)
    /\ memory_[3] = WrittenValue(last.acc, 3) + 1

C11_PCValidOrHalted ==
    Stepped => (PCInBounds(memory_[PC_ADDR]) \/ halted_flag_)

\* C11 amended: a step may leave the PC cell outside the instruction table
\* with the CPU running; the step that follows then executes no instruction:
\* begun in kernel mode it halts with the PC cell unchanged, begun in user
\* mode it traps with EVENT = 5, SAVED_PC = that PC, kernel mode and PC = 60.
C11_BadPCFaultsAtNextFetch ==
    [][(IsStep /\ ~PCInBounds(memory_[PC_ADDR])) =>
          /\ ~last'.fetched
          /\ Len(last'.acc) = 0
          /\ IF user_mode_flag_
             THEN /\ ~halted_flag_' /\ ~user_mode_flag_'
                  /\ memory_'[CPU_OS_COMM_ADDR] = EV_UNKNOWN_INSTRUCTION_FAULT
                  /\ memory_'[SAVED_TRAP_PC_ADDR] = memory_[PC_ADDR]
                  /\ memory_'[PC_ADDR] = OS_UNKNOWN_INSTRUCTION_HANDLER_PC
             ELSE /\ halted_flag_'
                  /\ memory_'[PC_ADDR] = memory_[PC_ADDR]]_vars

\* a user-mode step found the PC outside the table and trapped to 60
C11_Witness ==
    /\ Stepped /\ last.user /\ ~last.fetched /\ ~PCInBounds(last.pc)
    /\ memory_[CPU_OS_COMM_ADDR] = EV_UNKNOWN_INSTRUCTION_FAULT
    /\ memory_[PC_ADDR] = OS_UNKNOWN_INSTRUCTION_HANDLER_PC
    /\ ~halted_flag_

\* a fault the CPU delivers as a stack fault: the stack overflow error, which
\* halts a kernel-mode step and traps a user-mode step with EVENT = 4
StackFault(l) ==
    /\ l.exc.kind = "runtime_error"
    /\ is_stack_issue(l.exc.what)

\* C12: after every step, if SP (cell 1) is negative then that step produced
\* a stack fault, whether SP was decremented by PUSH/CALL or cell 1 was
\* written directly.
C12_NegativeSPFaults ==
    (Stepped /\ memory_[SP_ADDR] < 0) => StackFault(last)

(***************************************************************************)
(* Control flow: PC commit, handler PCs, HLT, holes and the stack.          *)
(***************************************************************************)

\* the instructions that store into a cell named by their operands
DataOps == {"SET", "CPY", "CPYI", "CPYI2", "ADD", "ADDI", "SUBI", "LOADI",
            "STOREI", "POP"}

\* C13: when a data instruction run in kernel mode writes the value v to
\* cell 0, the PC cell holds exactly v after the step: no increment is
\* applied on top and the old PC + 1 is not stored.
C13_WrittenPCTakesEffect ==
    [][(/\ IsStep /\ ~user_mode_flag_
        /\ PCInBounds(memory_[PC_ADDR])
        /\ Fetched.opcode \in DataOps
        /\ WroteCell(last'.acc, PC_ADDR)) =>
          memory_'[PC_ADDR] = WrittenValue(last'.acc, PC_ADDR)]_vars

\* a kernel-mode data instruction stored a value other than its own PC + 1
\* into cell 0 and the step ended with that value as the PC
C13_Witness ==
    /\ Stepped /\ ~last.user /\ last.fetched
    /\ last.instr.opcode \in DataOps
    /\ WroteCell(last.acc, PC_ADDR)
    /\ WrittenValue(last.acc, PC_ADDR) # last.pc + 1
    /\ memory_[PC_ADDR] = WrittenValue(last.acc, PC_ADDR)
    /\ ~halted_flag_

\* the PC the handlers of step() send a user-mode step to when its
\* instruction at PC 0 raises the exception e
HandlerPC(e) ==
    Catch(Throw([Context(0) EXCEPT !.user = TRUE], e)).next_pc

\* an exception of the fault class a trap's EVENT code stands for
FaultOfEvent(ev) ==
    IF ev = EV_MEMORY_FAULT_USER
    THEN UserMemoryFaultException("User mode read access violation", OS_DATA_START_ADDR)
    ELSE IF ev = EV_UNKNOWN_INSTRUCTION_FAULT
    THEN runtime_error("Program Counter is out of instruction bounds.")
    ELSE runtime_error("SET: Invalid number of operands.")

FaultEvents == {EV_MEMORY_FAULT_USER, EV_UNKNOWN_INSTRUCTION_FAULT, EV_ARITHMETIC_FAULT}

\* C14: a user-mode step that traps with a memory fault, an unknown
\* instruction fault or an arithmetic fault is sent to a PC that differs from
\* the syscall dispatcher PC and from the PC each of the two other fault
\* classes is sent to.
C14_DistinctHandlerPCs ==
    (/\ Stepped /\ last.user /\ Faulted /\ ~halted_flag_
     /\ memory_[CPU_OS_COMM_ADDR] \in FaultEvents) =>
        /\ memory_[PC_ADDR] # OS_SYSCALL_DISPATCHER_PC
        /\ \A ev \in FaultEvents \ {memory_[CPU_OS_COMM_ADDR]} :
               memory_[PC_ADDR] # HandlerPC(FaultOfEvent(ev))

\* the instruction fetched is a push that would drive SP below 0
PushBelowZero ==
    /\ Fetched.opcode \in {"PUSH", "CALL"}
    /\ Fetched.opcode = "PUSH" =>
           (Fetched.arg1 >= USER_MEMORY_START_ADDR /\ Fetched.arg1 < MemSize)
    /\ memory_[SP_ADDR] - 1 < 0

\* the instruction fetched is a pop whose SP is outside 0..N-1
PopOutOfRange ==
    /\ Fetched.opcode \in {"POP", "RET"}
    /\ (memory_[SP_ADDR] < 0 \/ memory_[SP_ADDR] >= MemSize)

\* C15: in user mode a PUSH or CALL that would drive SP below 0 and a POP or
\* RET whose SP is outside 0..N-1 each end the step with EVENT = 4 and
\* PC = the memory-fault handler PC.
C15_StackFaultsAreMemoryFaults ==
    [][(/\ IsStep /\ user_mode_flag_ /\ PCInBounds(memory_[PC_ADDR])
        /\ (PushBelowZero \/ PopOutOfRange)) =>
          /\ memory_'[CPU_OS_COMM_ADDR] = EV_MEMORY_FAULT_USER
          /\ memory_'[PC_ADDR] = OS_MEMORY_FAULT_HANDLER_PC]_vars

\* C16: USER A run in kernel mode on a readable address A raises no fault,
\* sets the PC cell to mem[A] and enters user mode whether or not mem[A] is
\* an index of the instruction table; when it is not, the step that follows
\* traps with EVENT = 5, SAVED_PC = that PC, kernel mode and PC = the
\* unknown-instruction handler PC.
C16_UserTargetCheckedAtNextFetch ==
    [][/\ (/\ IsStep /\ ~user_mode_flag_ /\ PCInBounds(memory_[PC_ADDR])
           /\ Fetched.opcode = "USER" /\ Fetched.num_operands = 1
           /\ Fetched.arg1 \in Addresses) =>
             /\ last'.exc = NoException
             /\ ~halted_flag_'
             /\ user_mode_flag_'
             /\ memory_'[PC_ADDR] = memory_[Fetched.arg1]
       /\ (/\ IsStep /\ Ran("USER") /\ ~last.user /\ last.exc = NoException
           /\ ~PCInBounds(memory_[PC_ADDR])) =>
             /\ last'.user /\ ~last'.fetched
             /\ ~halted_flag_' /\ ~user_mode_flag_'
             /\ memory_'[CPU_OS_COMM_ADDR] = EV_UNKNOWN_INSTRUCTION_FAULT
             /\ memory_'[SAVED_TRAP_PC_ADDR] = memory_[PC_ADDR]
             /\ memory_'[PC_ADDR] = OS_UNKNOWN_INSTRUCTION_HANDLER_PC]_vars

\* USER sent the CPU to a PC outside the table without a fault and the next
\* step, taken in user mode, trapped as an unknown instruction
C16_Witness ==
    /\ Stepped /\ last.user /\ ~last.fetched
    /\ prev.op = "step" /\ ~prev.user /\ prev.fetched
    /\ prev.instr.opcode = "USER" /\ prev.exc = NoException
    /\ ~PCInBounds(last.pc)
    /\ memory_[CPU_OS_COMM_ADDR] = EV_UNKNOWN_INSTRUCTION_FAULT
    /\ memory_[SAVED_TRAP_PC_ADDR] = last.pc
    /\ memory_[PC_ADDR] = OS_UNKNOWN_INSTRUCTION_HANDLER_PC
    /\ ~user_mode_flag_

\* C17: a step that executes HLT at PC = p, in either mode, sets halted and
\* leaves every memory cell as it was, the PC cell (= p) included, except
\* ICOUNT, which is incremented.
C17_HaltFrame ==
    [][(/\ IsStep /\ PCInBounds(memory_[PC_ADDR])
        /\ Fetched.opcode = "HLT" /\ Fetched.num_operands = 0) =>
          /\ halted_flag_'
          /\ memory_'[PC_ADDR] = last'.pc
          /\ memory_' = [memory_ EXCEPT ![INSTR_COUNT_ADDR] = @ + 1]]_vars

\* HLT was executed in user mode at PC = 1 and the CPU stopped there
C17_Witness ==
    /\ Ran("HLT") /\ last.user /\ halted_flag_
    /\ last.pc = 1 /\ memory_[PC_ADDR] = 1
    /\ memory_[INSTR_COUNT_ADDR] = last.icount_before + 1

\* the indices the lines of an instruction section give
Given(lines) == {lines[n].parsedLineNum : n \in 1..Len(lines)}

\* what step() does on this state when the instruction fetched is HLT
AsHLT ==
    CommitPC(incrementInstructionCounter(Catch(
        ExecHLT(Context(memory_[PC_ADDR]), Instruction("HLT", 0, 0, 0)))))

\* C18: a table parsed from lines that skip an index has a hole at every
\* skipped index, and a step that fetches a hole, in either mode, ends as a
\* step executing HLT there would: halted, PC cell and mode unchanged,
\* ICOUNT incremented, no other cell written (EVENT, SAVED_PC and ARG1
\* included) and no trap.
C18_HoleIsImplicitHLT ==
    [][/\ \A l \in Listings :
             program_instructions_ = parseInstructionSection(l) =>
                 /\ Len(program_instructions_) - 1 \in Given(l)
                 /\ \A k \in 0..(Len(program_instructions_) - 1) :
                        k \notin Given(l) => program_instructions_[k + 1] = Hole
       /\ (IsStep /\ PCInBounds(memory_[PC_ADDR]) /\ Fetched = Hole) =>
             /\ halted_flag_'
             /\ user_mode_flag_' = user_mode_flag_
             /\ memory_' = [memory_ EXCEPT ![INSTR_COUNT_ADDR] = @ + 1]
             /\ last'.exc = NoException
             /\ memory_' = AsHLT.mem
             /\ halted_flag_' = AsHLT.halted
             /\ user_mode_flag_' = AsHLT.user
             /\ prn_output' = AsHLT.out]_vars

\* a user-mode step fetched the hole left at index 1 by an image that gave
\* only indices 0 and 2, and the CPU halted there with no trap
C18_Witness ==
    /\ Stepped /\ last.user /\ last.fetched /\ last.instr = Hole
    /\ \E l \in Listings :
           /\ program_instructions_ = parseInstructionSection(l)
           /\ last.pc \notin Given(l)
    /\ halted_flag_ /\ user_mode_flag_
    /\ memory_[PC_ADDR] = last.pc
    /\ memory_[CPU_OS_COMM_ADDR] = EV_NONE
    /\ memory_[INSTR_COUNT_ADDR] = last.icount_before + 1

\* an address the CPU lets a step begun in this mode read and write
Accessible(user, a) ==
    a \in Addresses /\ (user => a >= USER_MEMORY_START_ADDR)

\* the value a step's instruction read from cell a by a checked read
ReadValue(acc, a) ==
    acc[CHOOSE n \in 1..Len(acc) :
            acc[n].kind = "read" /\ acc[n].ok /\ acc[n].addr = a].val

WasRead(acc, a) ==
    \E n \in 1..Len(acc) : acc[n].kind = "read" /\ acc[n].ok /\ acc[n].addr = a

\* the two steps before this state began with PUSH A at a slot followed by
\* POP B, with SP = s >= 1 and s-1, A, B accessible in the mode of the PUSH,
\* A and B distinct from cells 0 and 1 and from s-1
PushPopCase ==
    /\ Stepped /\ prev.op = "step" /\ prev.fetched
    /\ prev.instr.opcode = "PUSH"
    /\ prev.pc + 2 <= Len(program_instructions_)
    /\ program_instructions_[prev.pc + 2].opcode = "POP"
    /\ prev.sp >= 1
    /\ LET A == prev.instr.arg1
           B == program_instructions_[prev.pc + 2].arg1 IN
       /\ Accessible(prev.user, prev.sp - 1)
       /\ Accessible(prev.user, A)
       /\ Accessible(prev.user, B)
       /\ {A, B} \cap {PC_ADDR, SP_ADDR, prev.sp - 1} = {}

\* PUSH A was followed by POP B, mem[B] is the value PUSH read from cell A
\* and SP is back at the value it had before the PUSH
RoundTripDone ==
    /\ last.fetched /\ last.pc = prev.pc + 1 /\ last.instr.opcode = "POP"
    /\ last.exc = NoException /\ prev.exc = NoException
    /\ WasRead(prev.acc, prev.instr.arg1)
    /\ memory_[last.instr.arg1] = ReadValue(prev.acc, prev.instr.arg1)
    /\ memory_[SP_ADDR] = prev.sp

\* C19 as stated: from SP = s >= 1 with s-1, A and B legal in the current
\* mode and A, B distinct from cells 0 and 1 and from s-1, PUSH A then POP B
\* leaves mem[B] equal to the original mem[A] and SP equal to s.
C19_PushPopRoundTrip == PushPopCase => RoundTripDone

\* C19 amended: the same, provided also that B is not cell 3 (ICOUNT) and
\* s-1 is none of cells 0, 1 and 3.
C19_PushPopRoundTripOffRegisters ==
    (/\ PushPopCase
     /\ program_instructions_[prev.pc + 2].arg1 # INSTR_COUNT_ADDR
     /\ prev.sp - 1 \notin {PC_ADDR, SP_ADDR, INSTR_COUNT_ADDR}) => RoundTripDone

\* PUSH 1000; POP 1002 ran in user mode from SP = 1004 and brought the value
\* of cell 1000 to cell 1002 through cell 1003
C19_Witness ==
    /\ PushPopCase /\ RoundTripDone /\ prev.user /\ last.user
    /\ prev.instr.arg1 # last.instr.arg1
    /\ WroteCell(prev.acc, prev.sp - 1)
    /\ memory_[last.instr.arg1] = memory_[prev.instr.arg1]

\* the step about to be taken executes CALL with SP = s >= 1 and s-1 a cell
\* the current mode can access
CallCase ==
    /\ IsStep /\ PCInBounds(memory_[PC_ADDR])
    /\ Fetched.opcode = "CALL"
    /\ memory_[SP_ADDR] >= 1
    /\ Accessible(user_mode_flag_, memory_[SP_ADDR] - 1)

\* CALL C at PC = p with SP = s stored p + 1 in mem[s-1], SP = s-1, PC = C
CallDone ==
    /\ memory_'[memory_[SP_ADDR] - 1] = memory_[PC_ADDR] + 1
    /\ memory_'[SP_ADDR] = memory_[SP_ADDR] - 1
    /\ memory_'[PC_ADDR] = Fetched.arg1

\* the step about to be taken executes RET right after such a CALL
ReturnCase ==
    /\ IsStep /\ Ran("CALL") /\ last.sp >= 1
    /\ Accessible(last.user, last.sp - 1)
    /\ PCInBounds(memory_[PC_ADDR])
    /\ Fetched.opcode = "RET"

\* RET brought the PC to the instruction after the CALL and SP back to s
ReturnDone ==
    /\ memory_'[PC_ADDR] = last.pc + 1
    /\ memory_'[SP_ADDR] = last.sp

\* C20 as stated: CALL C at PC = p with SP = s >= 1 writes p + 1 to mem[s-1]
\* and sets SP = s-1 and PC = C; the matching RET, with SP and mem[s-1] left
\* untouched in between, sets PC = p + 1 and SP = s.
C20_CallRetRoundTrip ==
    [][(CallCase => CallDone) /\ (ReturnCase => ReturnDone)]_vars

\* the stack slot of a CALL is none of the PC, SP and ICOUNT cells
OffRegisters(s) == s - 1 \notin {PC_ADDR, SP_ADDR, INSTR_COUNT_ADDR}

\* C20 amended: the same for s-1 a cell the current mode can access other
\* than cells 0, 1 and 3; and RET with SP = t, t accessible in the current
\* mode, sets PC = mem[t] and SP = t + 1.
C20_CallRetRoundTripOffRegisters ==
    [][/\ (CallCase /\ OffRegisters(memory_[SP_ADDR])) => CallDone
       /\ (ReturnCase /\ OffRegisters(last.sp)) => ReturnDone
       /\ (/\ IsStep /\ PCInBounds(memory_[PC_ADDR]) /\ Fetched.opcode = "RET"
           /\ Accessible(user_mode_flag_, memory_[SP_ADDR])) =>
             /\ memory_'[PC_ADDR] = memory_[memory_[SP_ADDR]]
             /\ memory_'[SP_ADDR] = memory_[SP_ADDR] + 1]_vars

\* CALL 2 ran in user mode at PC = 1 and the RET at 2 returned to PC = 2
\* with SP back at its value before the CALL
C20_Witness ==
    /\ Ran("RET") /\ last.user /\ last.exc = NoException
    /\ prev.op = "step" /\ prev.fetched /\ prev.instr.opcode = "CALL"
    /\ prev.user /\ prev.exc = NoException
    /\ WroteCell(prev.acc, prev.sp - 1)
    /\ WrittenValue(prev.acc, prev.sp - 1) = prev.pc + 1
    /\ last.pc = prev.instr.arg1
    /\ memory_[PC_ADDR] = prev.pc + 1
    /\ memory_[SP_ADDR] = prev.sp

(***************************************************************************)
(* Instruction semantics, the simulation loop and image loading.            *)
(***************************************************************************)

\* what step() does on this state when the instruction fetched is i
StepWith(i) ==
    CommitPC(incrementInstructionCounter(Catch(Execute(Context(memory_[PC_ADDR]), i))))

\* the step about to be taken ends with the memory, flags and output of r
EndsAs(r) ==
    /\ memory_' = r.mem
    /\ halted_flag_' = r.halted
    /\ user_mode_flag_' = r.user
    /\ pc_modified_by_data_operation_' = r.pc_data
    /\ prn_output' = r.out

\* C21: when A, mem[A] and B are addresses the current mode can access, a
\* step executing CPYI A B ends with the memory, PC and flags that a step
\* executing CPY (mem[A]) B ends with from the same state.
C21_CpyiIsCpyOfPointer ==
    [][(/\ IsStep /\ PCInBounds(memory_[PC_ADDR])
        /\ Fetched.opcode = "CPYI" /\ Fetched.num_operands = 2
        /\ Accessible(user_mode_flag_, Fetched.arg1)
        /\ Accessible(user_mode_flag_, memory_[Fetched.arg1])
        /\ Accessible(user_mode_flag_, Fetched.arg2)) =>
          EndsAs(StepWith(Instruction("CPY", memory_[Fetched.arg1], Fetched.arg2, 2)))]_vars

\* CPYI ran in user mode, read a pointer, read the cell it points to, whose
\* value differs from the pointer, and stored that value
C21_Witness ==
    /\ Ran("CPYI") /\ last.user /\ last.exc = NoException
    /\ Len(last.acc) = 3
    /\ last.acc[2].addr = last.acc[1].val
    /\ last.acc[2].val # last.acc[1].val
    /\ last.acc[3].kind = "write" /\ last.acc[3].val = last.acc[2].val
    /\ memory_[last.instr.arg2] = last.acc[2].val

\* the checked writes a step's instruction performed, in order
Writes(acc) == SelectSeq(acc, LAMBDA x : x.kind = "write" /\ x.ok)

\* the memory after a step at PC = pc whose instruction stored val into cell
\* dest and nothing else: the store, then the count, then the PC commit
AfterStore(dest, val, pc) ==
    LET stored == [memory_ EXCEPT ![dest] = val]
        counted == [stored EXCEPT ![INSTR_COUNT_ADDR] = @ + 1] IN
    IF dest = PC_ADDR THEN counted ELSE [counted EXCEPT ![PC_ADDR] = pc + 1]

\* C22: with A1 and A2 accessible in the current mode, SUBI A1 A2 makes one
\* store, of mem[A1] - mem[A2] into cell A2, and ADDI A1 A2 makes one store,
\* of mem[A1] + mem[A2] into cell A1; the other operand's cell and every
\* other cell keep their values, apart from the PC advancing and ICOUNT
\* being incremented by the step.
C22_SubiStoresInSecondOperand ==
    [][(/\ IsStep /\ PCInBounds(memory_[PC_ADDR])
        /\ Fetched.opcode \in {"SUBI", "ADDI"} /\ Fetched.num_operands = 2
        /\ Accessible(user_mode_flag_, Fetched.arg1)
        /\ Accessible(user_mode_flag_, Fetched.arg2)) =>
          LET subi == Fetched.opcode = "SUBI"
              dest == IF subi THEN Fetched.arg2 ELSE Fetched.arg1
              val == IF subi
                     THEN memory_[Fetched.arg1] - memory_[Fetched.arg2]
                     ELSE memory_[Fetched.arg1] + memory_[Fetched.arg2] IN
          /\ last'.exc = NoException
          /\ Len(Writes(last'.acc)) = 1
          /\ Writes(last'.acc)[1].addr = dest
          /\ Writes(last'.acc)[1].val = val
          /\ memory_' = AfterStore(dest, val, memory_[PC_ADDR])]_vars

\* SUBI A1 A2 with A1 # A2 left the difference in cell A2, a value that the
\* sum or a store into A1 would not have given, and cell A1 as it was
C22_Witness ==
    /\ Ran("SUBI") /\ last.exc = NoException
    /\ last.instr.arg1 # last.instr.arg2
    /\ {last.instr.arg1, last.instr.arg2} \cap {PC_ADDR, INSTR_COUNT_ADDR} = {}
    /\ last.acc[1].val # 0 /\ last.acc[2].val # 0
    /\ memory_[last.instr.arg2] = last.acc[1].val - last.acc[2].val
    /\ memory_[last.instr.arg1] = last.acc[1].val

\* C23: with A accessible in the current mode, JIF A C at PC = p ends with
\* PC = C when mem[A] <= 0 and with PC = p + 1 when mem[A] > 0, and changes
\* no cell other than PC and ICOUNT.
C23_JumpIfNotPositive ==
    [][(/\ IsStep /\ PCInBounds(memory_[PC_ADDR])
        /\ Fetched.opcode = "JIF" /\ Fetched.num_operands = 2
        /\ Accessible(user_mode_flag_, Fetched.arg1)) =>
          /\ last'.exc = NoException
          /\ Len(Writes(last'.acc)) = 0
          /\ memory_' =
                [memory_ EXCEPT
                    ![PC_ADDR] = IF memory_[Fetched.arg1] <= 0
                                 THEN Fetched.arg2 ELSE memory_[PC_ADDR] + 1,
                    ![INSTR_COUNT_ADDR] = @ + 1]]_vars

\* JIF read a zero and jumped to a target other than the next instruction
C23_Witness ==
    /\ Ran("JIF") /\ last.exc = NoException
    /\ last.acc[1].val = 0
    /\ last.instr.arg2 # last.pc + 1
    /\ memory_[PC_ADDR] = last.instr.arg2

\* the JIF of the countdown image has just run: it left the loop exactly
\* when the counter reached 0, which is when the CPU had counted the
\* instructions of n passes less the closing jump, n the initial value; up
\* to there the counter is n less the number of decrements made
ExitOnTime ==
    /\ (memory_[PC_ADDR] = 3) <=> (memory_[10] = 0)
    /\ (memory_[PC_ADDR] = 3) <=> (memory_[INSTR_COUNT_ADDR] = 3 * memory_[11] - 1)
    /\ memory_[10] = memory_[11] - ((memory_[INSTR_COUNT_ADDR] + 1) \div 3)

\* the countdown image has executed its HLT after n passes
CountdownDone ==
    /\ halted_flag_ /\ Ran("HLT")
    /\ memory_[10] = 0
    /\ memory_[INSTR_COUNT_ADDR] = 3 * memory_[11]

\* C24: the countdown image, which decrements a cell holding n > 0 with
\* ADD 10 -1 and leaves the loop by JIF 10, takes the JIF exit after exactly
\* n decrements and not before, and then reaches HLT: the run terminates.
C24_CountdownTerminates ==
    /\ []((program_instructions_ = Countdown /\ Ran("JIF")) => ExitOnTime)
    /\ []((program_instructions_ = Countdown) => <>CountdownDone)

\* the countdown from 3 has halted on its HLT after three passes and main
\* has returned
C24_Witness ==
    /\ program_instructions_ = Countdown /\ memory_[11] = 3
    /\ CountdownDone
    /\ prev.op = "step" /\ prev.instr.opcode = "JIF" /\ last.pc = 3
    /\ memory_[INSTR_COUNT_ADDR] = 9
    /\ exit_code = 0

FatalFault == Stepped /\ ~last.user /\ Faulted /\ halted_flag_

\* C26: once main() has returned, its exit code is 0 when the run ended on
\* an executed HLT and 1 when it ended on a kernel-mode fault that halted
\* the CPU.
C26_ExitCodeTellsFault ==
    (exit_code # NotReturned) =>
        /\ Ran("HLT") => exit_code = 0
        /\ FatalFault => exit_code = 1

(***************************************************************************)
(* Loading an image file: main() hands the file to Memory::loadDataSection *)
(* and then to parseInstructionSection, and returns 1 when either fails.   *)
(***************************************************************************)
\* the longest image file drawn
MaxLines == 4

\* a line of the image file: its text, and the two numbers a data line or
\* an instruction line begins with
FileLine(text, a, b) == [text |-> text, a |-> a, b |-> b]

BeginData == FileLine("Begin Data Section", 0, 0)
EndData == FileLine("End Data Section", 0, 0)
BeginInstruction == FileLine("Begin Instruction Section", 0, 0)
EndInstruction == FileLine("End Instruction Section", 0, 0)
\* the data line "10 3" and the instruction line "0 HLT"
DataLine == FileLine("address value", 10, 3)
InstructionLine == FileLine("PC HLT", 0, 0)

FileLines ==
    {BeginData, EndData, BeginInstruction, EndInstruction, DataLine,
     InstructionLine}

\* the image files given to main()
Files == UNION {[1..n -> FileLines] : n \in 0..MaxLines}

\* Memory::Memory: every cell is 0
ZeroMemory == [a \in 0..(MemSize - 1) |-> 0]

\* the second loop of loadDataSection, from line i on: the lines after the
\* Begin marker are written into memory up to the End marker
RECURSIVE processDataLines(_, _, _)
processDataLines(file, i, data) ==
    IF i > Len(file) THEN [ok |-> FALSE, data |-> data]
    ELSE IF file[i] = EndData THEN [ok |-> TRUE, data |-> data]
    ELSE IF file[i].text # "address value" THEN [ok |-> FALSE, data |-> data]
    ELSE IF ~checkAddress(file[i].a)
         THEN [ok |-> FALSE, data |-> data]
    ELSE processDataLines(file, i + 1, [data EXCEPT ![file[i].a] = file[i].b])

\* Memory::loadDataSection: without a Begin marker the stream is rewound and
\* the load goes on
loadDataSection(file, data) ==
    LET begins == {i \in 1..Len(file) : file[i] = BeginData} IN
    IF begins = {} THEN [ok |-> TRUE, data |-> data]
    ELSE processDataLines(file,
                          (CHOOSE i \in begins : \A j \in begins : i <= j) + 1,
                          data)

\* the while loop of parseInstructionSection over the lines of the file from
\* line i on: the lines it hands to the instruction parser, or a throw
RECURSIVE sectionLines(_, _, _, _)
sectionLines(file, i, inInstructionSection, lines) ==
    IF i > Len(file) THEN [ok |-> TRUE, lines |-> lines]
    ELSE IF file[i] = BeginInstruction
         THEN sectionLines(file, i + 1, TRUE, lines)
    ELSE IF file[i] = EndInstruction THEN [ok |-> TRUE, lines |-> lines]
    ELSE IF ~inInstructionSection
         THEN sectionLines(file, i + 1, inInstructionSection, lines)
    ELSE IF file[i].text = "PC HLT"
         THEN sectionLines(file, i + 1, inInstructionSection,
                           Append(lines, Line(file[i].a, Instruction("HLT", 0, 0, 0))))
    ELSE [ok |-> FALSE, lines |-> lines]

\* main() from the opening of the image file to the construction of the CPU
main_load ==
    /\ ~loaded
    /\ loaded' = TRUE
    /\ LET d == loadDataSection(image_file, memory_)
           p == sectionLines(image_file, 1, FALSE, << >>) IN
       /\ memory_' = d.data
       /\ IF ~d.ok \/ ~p.ok
          THEN /\ exit_code' = 1
               /\ UNCHANGED program_instructions_
          ELSE /\ program_instructions_' = parseInstructionSection(p.lines)
               /\ UNCHANGED exit_code
    /\ UNCHANGED <<halted_flag_, user_mode_flag_, pc_modified_by_data_operation_,
                   prn_output, steps, resets, icount_at_reset, icount_written,
                   last, prev, image_file>>

\* main() started on an image file
LoadInit ==
    /\ image_file \in Files
    /\ loaded = FALSE
    /\ memory_ = ZeroMemory
    /\ program_instructions_ = << >>
    /\ halted_flag_ = FALSE
    /\ user_mode_flag_ = FALSE
    /\ pc_modified_by_data_operation_ = FALSE
    /\ prn_output = << >>
    /\ steps = 0
    /\ resets = 0
    /\ icount_at_reset = 0
    /\ icount_written = FALSE
    /\ last = NotStepped
    /\ prev = NotStepped
    /\ exit_code = NotReturned

LoadNext == main_load \/ step \/ main_return

LoadSpec == LoadInit /\ [][LoadNext]_vars

\* the image file holds the line l
HasLine(l) == \E i \in 1..Len(image_file) : image_file[i] = l

\* a section marker of the image file stands without its pair
UnpairedMarker ==
    \/ HasLine(BeginData) # HasLine(EndData)
    \/ HasLine(BeginInstruction) # HasLine(EndInstruction)

\* the image file is one whole section and nothing else
OneSection(begin, end, text) ==
    /\ Len(image_file) >= 2
    /\ image_file[1] = begin
    /\ image_file[Len(image_file)] = end
    /\ \A i \in 2..(Len(image_file) - 1) : image_file[i].text = text

LacksOneSection ==
    \/ OneSection(BeginData, EndData, "address value")
    \/ OneSection(BeginInstruction, EndInstruction, "PC HLT")

\* main() refused the image file
LoadFailed == loaded /\ exit_code = 1

\* C27: once the image file is loaded, a file with a section marker that
\* stands without its pair has been refused, and a file that is one whole
\* section has been accepted
C27_UnpairedMarkerRejected ==
    loaded => /\ UnpairedMarker => LoadFailed
              /\ LacksOneSection => ~LoadFailed

(***************************************************************************)
(* Memory bounds.                                                          *)
(***************************************************************************)
\* the checked access x was handed on to Memory::read or Memory::write: the
\* user-mode test of checkedRead and checkedWrite did not throw before it
ReachedMemory(x) ==
    ~(x.user /\ x.addr < USER_MEMORY_START_ADDR /\ x.addr >= 0)

\* C28: every access a step hands to Memory::read or Memory::write succeeds
\* exactly when its address is in 0..MemSize-1; and a kernel-mode step whose
\* instruction made no successful write and one refused by the memory
\* leaves every cell of the memory with the value it had, apart from the
\* CPU's own counting of the step in ICOUNT and its moving of SP.
C28_MemoryBounds ==
    [][IsStep =>
          /\ \A n \in 1..Len(last'.acc) :
                 ReachedMemory(last'.acc[n]) =>
                     (last'.acc[n].ok <=>
                          (0 <= last'.acc[n].addr /\ last'.acc[n].addr < MemSize))
          /\ (/\ ~user_mode_flag_
              /\ Writes(last'.acc) = << >>
              /\ \E n \in 1..Len(last'.acc) :
                     last'.acc[n].kind = "write" /\ ~last'.acc[n].ok) =>
                 memory_' = [memory_ EXCEPT ![INSTR_COUNT_ADDR] = @ + 1,
                                            ![SP_ADDR] = memory_'[SP_ADDR]]]_vars

\* a kernel-mode step read cell MemSize-1 and was refused the write of cell
\* MemSize
C28_Witness ==
    /\ Stepped /\ ~last.user
    /\ \E x \in Accesses : x.kind = "read" /\ x.ok /\ x.addr = MemSize - 1
    /\ \E x \in Accesses : x.kind = "write" /\ ~x.ok /\ x.addr = MemSize

(***************************************************************************)
(* The order of the print and the trap in SYSCALL PRN.                     *)
(***************************************************************************)
\* C29: SYSCALL PRN A, with A a cell of the memory and, in user mode, one a
\* user thread may read, hands exactly one value to the print callback, the
\* value cell A had when the step began, also when A is SAVED_PC, EVENT,
\* ARG1 or PC; the step then ends with SAVED_PC = PC + 1, EVENT = 1,
\* ARG1 = A and PC = the syscall dispatcher.  SYSCALL HLT and SYSCALL YIELD
\* hand nothing to the callback.
C29_PrnBeforeTrap ==
    [][(IsStep /\ PCInBounds(memory_[PC_ADDR])) =>
          /\ (/\ Fetched.opcode = "SYSCALL_PRN" /\ Fetched.num_operands = 1
              /\ checkAddress(Fetched.arg1)
              /\ (user_mode_flag_ => LegalForUser(Fetched.arg1))) =>
                 /\ prn_output' = Append(prn_output, memory_[Fetched.arg1])
                 /\ memory_'[SAVED_TRAP_PC_ADDR] = memory_[PC_ADDR] + 1
                 /\ memory_'[CPU_OS_COMM_ADDR] = EV_SYSCALL_PRN
                 /\ memory_'[SYSCALL_ARG1_PASS_ADDR] = Fetched.arg1
                 /\ memory_'[PC_ADDR] = OS_SYSCALL_DISPATCHER_PC
          /\ Fetched.opcode \in {"SYSCALL_HLT_THREAD", "SYSCALL_YIELD"} =>
                 prn_output' = prn_output]_vars

\* a user-mode SYSCALL PRN of the SAVED_PC cell printed the 0 the cell held
\* and left the return address in it
C29_Witness ==
    /\ Ran("SYSCALL_PRN") /\ last.user
    /\ last.instr.arg1 = SAVED_TRAP_PC_ADDR
    /\ prn_output = <<0>>
    /\ memory_[SAVED_TRAP_PC_ADDR] = last.pc + 1

(***************************************************************************)
(* The trap cells between traps.                                           *)
(***************************************************************************)
Syscalls == {"SYSCALL_PRN", "SYSCALL_HLT_THREAD", "SYSCALL_YIELD"}

\* the last step delivered a trap to the supervisor: a syscall that ran to
\* its end, or a fault that did not halt the CPU
TrapDelivered ==
    /\ Stepped
    /\ \/ Faulted /\ ~halted_flag_
       \/ /\ last.fetched /\ last.instr.opcode \in Syscalls
          /\ last.exc = NoException

TrapCells == {CPU_OS_COMM_ADDR, SAVED_TRAP_PC_ADDR, SYSCALL_ARG1_PASS_ADDR}

\* C30: a step that delivers no trap leaves each of EVENT, SAVED_PC and ARG1
\* with the value it had, or with the value the step's instruction stored
\* into it by a write of its own; and a step in which EVENT changes without
\* such a store delivers a trap and leaves a code 1..6 in EVENT.
C30_CpuNeverClearsEvent ==
    [][IsStep =>
          /\ ~TrapDelivered' =>
                 \A a \in TrapCells :
                     memory_'[a] = IF WroteCell(last'.acc, a)
                                   THEN WrittenValue(last'.acc, a)
                                   ELSE memory_[a]
          /\ (/\ memory_'[CPU_OS_COMM_ADDR] # memory_[CPU_OS_COMM_ADDR]
              /\ ~WroteCell(last'.acc, CPU_OS_COMM_ADDR)) =>
                 /\ TrapDelivered'
                 /\ memory_'[CPU_OS_COMM_ADDR] \in 1..6]_vars

\* EVENT, stored by the supervisor's own SET, is still there after the HLT
\* that followed
C30_Witness ==
    /\ Ran("HLT") /\ ~TrapDelivered
    /\ prev.op = "step" /\ prev.instr = Instruction("SET", 7, CPU_OS_COMM_ADDR, 2)
    /\ memory_[CPU_OS_COMM_ADDR] = 7

(***************************************************************************)
(* The argument of a memory-fault trap.                                    *)
(***************************************************************************)
\* the last step delivered a trap with EVENT = 4
MemoryFaultTrap ==
    TrapDelivered /\ Faulted /\ memory_[CPU_OS_COMM_ADDR] = EV_MEMORY_FAULT_USER

\* C31: a step that delivers a trap with EVENT = 4 leaves in ARG1 the
\* address of an access that the step was refused.
C31_Arg1IsFaultingAddress ==
    [][(IsStep /\ MemoryFaultTrap') =>
          \E n \in 1..Len(last'.acc) :
              /\ ~last'.acc[n].ok
              /\ memory_'[SYSCALL_ARG1_PASS_ADDR] = last'.acc[n].addr]_vars

(***************************************************************************)
(* PUSH and POP on the SP cell itself.                                     *)
(***************************************************************************)
\* the step about to be taken runs, in kernel mode, the stack instruction op
\* with the SP cell as its operand
OnSPCell(op) ==
    /\ IsStep /\ ~user_mode_flag_ /\ PCInBounds(memory_[PC_ADDR])
    /\ Fetched.opcode = op /\ Fetched.num_operands = 1
    /\ Fetched.arg1 = SP_ADDR

\* C32: in kernel mode PUSH 1 with a stack slot SP - 1 in the memory (and not
\* the ICOUNT cell) leaves SP = SP - 1 and that value in the slot; POP 1 with
\* SP in the memory leaves SP = v + 1, v being the value popped.
C32_StackOpsOnSPCell ==
    [][/\ (/\ OnSPCell("PUSH")
           /\ checkAddress(memory_[SP_ADDR] - 1)
           /\ memory_[SP_ADDR] - 1 # INSTR_COUNT_ADDR) =>
              /\ memory_'[SP_ADDR] = memory_[SP_ADDR] - 1
              /\ memory_'[memory_[SP_ADDR] - 1] = memory_[SP_ADDR] - 1
       /\ (OnSPCell("POP") /\ checkAddress(memory_[SP_ADDR])) =>
              memory_'[SP_ADDR] = memory_[memory_[SP_ADDR]] + 1]_vars

(***************************************************************************)
(* The commit of the PC after a store into cell 0.                         *)
(***************************************************************************)
\* C33: after a step that leaves the CPU running and whose instruction
\* stored into cell 0 by a checked write, the PC cell holds the value stored.
C33_WrittenPCWinsCommit ==
    [][(IsStep /\ ~halted_flag_' /\ WroteCell(last'.acc, PC_ADDR)) =>
          memory_'[PC_ADDR] = WrittenValue(last'.acc, PC_ADDR)]_vars

(***************************************************************************)
(* The hand-over of the CPU to a thread by the supervisor's dispatcher.    *)
(***************************************************************************)
\* the step about to be taken fetches the first instruction of the thread
\* the dispatcher was handed
FetchesThreadEntry ==
    /\ IsStep
    /\ program_instructions_ = OS_DISPATCH_THREAD
    /\ memory_[PC_ADDR] = ThreadEntry

\* C34: the first instruction of the dispatched thread is fetched in user
\* mode and with SP equal to the SP saved in the thread's TCB.
C34_DispatchEntersUserMode ==
    [][FetchesThreadEntry =>
          /\ user_mode_flag_
          /\ memory_[SP_ADDR] = memory_[TCB_TABLE_START + 1]]_vars

C36_ModeTransitions ==
    /\ ~user_mode_flag_
    /\ [][IsStep =>
            /\ (~user_mode_flag_ /\ user_mode_flag_') =>
                   /\ last'.fetched /\ last'.instr.opcode = "USER"
                   /\ last'.exc = NoException
            /\ (user_mode_flag_ /\ ~user_mode_flag_') =>
                   \/ last'.fetched /\ last'.instr.opcode \in Syscalls
                   \/ TrapDelivered']_vars

\* a step left user mode by a fault trap, after USER had entered it
C36_Witness ==
    /\ Stepped /\ last.user /\ ~user_mode_flag_
    /\ TrapDelivered /\ Faulted
    /\ prev.op = "step" /\ prev.instr.opcode = "USER" /\ ~prev.user

(***************************************************************************)
(* What a faulting step leaves behind.                                     *)
(***************************************************************************)
\* the cells a trap or the step itself writes: PC, EVENT, ICOUNT, SAVED_PC
\* and ARG1
StepCells == TrapCells \cup {PC_ADDR, INSTR_COUNT_ADDR}

\* C37: a step that ends in a fault leaves SP and every cell other than PC,
\* EVENT, SAVED_PC, ARG1 and ICOUNT with the value it had before the step.
C37_FaultIsAtomic ==
    [][(IsStep /\ Faulted') =>
          \A a \in Addresses \ StepCells : memory_'[a] = memory_[a]]_vars

(***************************************************************************)
(* A SYSCALL executed in kernel mode.                                      *)
(***************************************************************************)
\* the operation before the last one was a step that began in kernel mode
\* and ran a SYSCALL to its end
AfterKernelSyscall ==
    /\ prev.op = "step" /\ ~prev.user
    /\ prev.fetched /\ prev.instr.opcode \in Syscalls
    /\ prev.exc = NoException

\* C38: a SYSCALL PRN A (A in the memory), SYSCALL HLT or SYSCALL YIELD at
\* PC = p in kernel mode ends the step in kernel mode with SAVED_PC = p + 1,
\* EVENT = 1, 2 or 3 and PC = the syscall dispatcher; the step that follows
\* fetches at the dispatcher's PC.
C38_KernelSyscallTraps ==
    /\ [][(/\ IsStep /\ ~user_mode_flag_ /\ PCInBounds(memory_[PC_ADDR])
           /\ Fetched.opcode \in Syscalls
           /\ (Fetched.opcode = "SYSCALL_PRN" => checkAddress(Fetched.arg1))) =>
             /\ ~user_mode_flag_'
             /\ memory_'[SAVED_TRAP_PC_ADDR] = memory_[PC_ADDR] + 1
             /\ memory_'[CPU_OS_COMM_ADDR] = SyscallCode(Fetched.opcode)
             /\ memory_'[PC_ADDR] = OS_SYSCALL_DISPATCHER_PC]_vars
    /\ []((Stepped /\ AfterKernelSyscall) =>
             last.pc = OS_SYSCALL_DISPATCHER_PC)

\* the supervisor executed SYSCALL PRN 5 in kernel mode and the next step
\* fetched at the dispatcher's PC, not at the instruction after the SYSCALL
C38_Witness ==
    /\ Stepped /\ AfterKernelSyscall
    /\ prev.instr = Instruction("SYSCALL_PRN", SYSCALL_ARG1_PASS_ADDR, 0, 1)
    /\ last.pc = OS_SYSCALL_DISPATCHER_PC /\ last.pc # prev.pc + 1
    /\ memory_[SAVED_TRAP_PC_ADDR] = prev.pc + 1

(***************************************************************************)
(* Kernel mode.                                                            *)
(***************************************************************************)
\* C39: in a step that begins in kernel mode every access of the instruction
\* to an address in 0..MemSize-1 is performed, no protection fault is raised,
\* and EVENT does not become 4, 5 or 6 unless the instruction itself stored
\* that value into cell 2.
C39_KernelIsUnrestricted ==
    [][(IsStep /\ ~user_mode_flag_) =>
          /\ \A n \in 1..Len(last'.acc) :
                 checkAddress(last'.acc[n].addr) => last'.acc[n].ok
          /\ last'.exc.kind # "UserMemoryFaultException"
          /\ memory_'[CPU_OS_COMM_ADDR] \in FaultEvents =>
                 \/ memory_'[CPU_OS_COMM_ADDR] = memory_[CPU_OS_COMM_ADDR]
                 \/ WroteCell(last'.acc, CPU_OS_COMM_ADDR)]_vars

\* a kernel-mode step read a register and stored into a supervisor cell
C39_Witness ==
    /\ Stepped /\ ~last.user /\ last.exc = NoException
    /\ \E x \in Accesses : x.kind = "read" /\ x.ok /\ x.addr <= REGISTERS_END_ADDR
    /\ \E x \in Accesses : x.kind = "write" /\ x.ok /\ Supervisor(x.addr)

(***************************************************************************)
(* The frame of the data instructions.                                     *)
(***************************************************************************)
\* the instructions that compute a value and store it
StoreOps == DataOps \ {"POP"}

\* C40: a step that executes SET, CPY, CPYI, CPYI2, ADD, ADDI, SUBI, LOADI or
\* STOREI without a fault makes one store; every cell other than the cell
\* stored into, PC and ICOUNT keeps its value, SP included when it is not
\* that cell, and halted, user_mode and the instruction table are unchanged.
C40_DataInstructionFrame ==
    [][(/\ IsStep /\ PCInBounds(memory_[PC_ADDR])
        /\ Fetched.opcode \in StoreOps
        /\ last'.exc = NoException) =>
          /\ Len(Writes(last'.acc)) = 1
          /\ \A a \in Addresses \ {Writes(last'.acc)[1].addr, PC_ADDR, INSTR_COUNT_ADDR} :
                 memory_'[a] = memory_[a]
          /\ halted_flag_' = halted_flag_
          /\ user_mode_flag_' = user_mode_flag_
          /\ program_instructions_' = program_instructions_]_vars

\* a STOREI stored through its pointer into a cell other than the one that
\* holds the pointer, without a fault and with SP where it was
C40_Witness ==
    /\ Ran("STOREI") /\ last.exc = NoException
    /\ \E x \in Accesses : x.kind = "write" /\ x.ok /\ x.addr # last.instr.arg2
    /\ memory_[SP_ADDR] = last.sp

=============================================================================
